---- MODULE Spec2Model ----
(***************************************************************************)
(* Model of the AudioRightsScanner detection core: the classifier-path run *)
(* (ACRCloudService.identify_with_yamnet over YAMNetDetector), the         *)
(* fallback timeline run (identify_with_timeline) and the job layer        *)
(* (preload_yamnet / run_detection_job).                                   *)
(*                                                                         *)
(* The repository holds two copies of the program: the flat one (src/*.py, *)
(* variant "root") and the packaged one (src/app/..., variant "app").      *)
(* Where they differ the model branches on `variant`.                      *)
(*                                                                         *)
(* Time is counted in ticks of 1/10000 s, so that the frame hop 0.4875 s   *)
(* and the 2-decimal rounding of the code are both exact integers.         *)
(***************************************************************************)
EXTENDS Integers, Sequences, FiniteSets, TLC

\* ------------------------------------------------------------ constants
TICKS_PER_SEC == 10000
\* round(x, 2) keeps hundredths of a second: 100 ticks
CENTI == 100

TFLITE_INPUT_LENGTH == 15600
SAMPLE_RATE_16K == 16000
\* FRAME_HOP = 0.4875 s, FRAME_DURATION = 0.975 s
FRAME_HOP == 4875
FRAME_DURATION == 9750
\* hop_samples = int(FRAME_HOP * 16000)
HopSamples == (FRAME_HOP * SAMPLE_RATE_16K) \div TICKS_PER_SEC

\* confidence_threshold = 0.1 and background_music_threshold = 0.05, in hundredths
CONFIDENCE_THRESHOLD == 10
BACKGROUND_MUSIC_THRESHOLD == 5

\* chroma_threshold = 0.3, the default of find_boundaries_in_segment, in hundredths
CHROMA_THRESHOLD == 30

\* merge_gap = 2.0 (YAMNetDetector.__init__ default)
MERGE_GAP == 20000
\* min_segment_duration = 3.0 (identify_with_yamnet default, passed to the detector)
MIN_SEGMENT_DURATION == 30000
\* find_boundaries_in_segment: sr = 22050, hop = 512, min gap 5.0 s, 2 s sample floor
SR_CHROMA == 22050
HOP_LENGTH == 512
MIN_BOUNDARY_GAP == 50000
MIN_ANALYSIS == 20000

\* probe_interval = 8.0, 12 s probe window, 2.0 s tail floor
PROBE_INTERVAL == 80000
PROBE_WINDOW == 120000
TAIL_FLOOR == 20000

\* identify_with_timeline(chunk_seconds = 10, overlap_seconds = 2); _merge_segments(gap_threshold = 3)
CHUNK_SECONDS == 100000
OVERLAP_SECONDS == 20000
GAP_THRESHOLD == 30000

\* run_detection_job: poll every 3 s while waited < 60
POLL_SECONDS == 3
MAX_WAIT_SECONDS == 60

\* ------------------------------------------------------------ bounds
\* longest waveform considered, in analysis frames
NumFrames == 44
\* jobs running at once
NumJobs == 2
\* longest recording given to the fallback path, in seconds
MaxDurationSec == 21
\* frame positions offered to the coarse merger when it is called on its own
NumSlots == 12
\* method calls made in a row on one detector object
MaxCalls == 2

\* ------------------------------------------------------------ values
Variants == {"root", "app"}
\* acrid of a matched track; "None" stands for a missing or empty acrid (falsy)
NoId == "None"
TrackIds == {"A", "B"}
Acrids == TrackIds \cup {NoId}

Min(a, b) == IF a <= b THEN a ELSE b
Max(a, b) == IF a >= b THEN a ELSE b

\* round(x, 2) on a tick count: to the nearest hundredth, ties to even
Round2(t) ==
    LET q == t \div CENTI
        r == t % CENTI
    IN  IF 2 * r < CENTI THEN q * CENTI
        ELSE IF 2 * r > CENTI THEN (q + 1) * CENTI
        ELSE IF q % 2 = 0 THEN q * CENTI ELSE (q + 1) * CENTI

\* ------------------------------------------------------------ YAMNetDetector
\* music_score = max((scores[cid] for cid in music_class_ids if cid < len(scores)), default=0.0);
\* frame.music is the set of the scores at the music class ids, in hundredths
music_score(frame) ==
    IF frame.music = {} THEN 0
    ELSE CHOOSE x \in frame.music : \A y \in frame.music : y <= x
\* is_clear_music or is_bgm_under_speech; frame.speech: 'speech' in top_name.lower()
is_active(frame) ==
    \/ music_score(frame) >= CONFIDENCE_THRESHOLD
    \/ frame.speech /\ music_score(frame) >= BACKGROUND_MUSIC_THRESHOLD
\* the indices of the frames of a score list that satisfy the activation predicate
ActiveSet(scores) == {i \in 0..(Len(scores) - 1) : is_active(scores[i + 1])}

\* a frame loop that stops one window early: the window must end before the last sample
RECURSIVE DetectLoopStrict(_, _, _, _)
DetectLoopStrict(total_samples, active, frame_idx, sample_pos) ==
    IF sample_pos + TFLITE_INPUT_LENGTH < total_samples
    THEN LET start == frame_idx * FRAME_HOP
             rest  == DetectLoopStrict(total_samples, active, frame_idx + 1, sample_pos + HopSamples)
         IN  IF frame_idx \in active
             THEN <<[start |-> start, end |-> start + FRAME_DURATION]>> \o rest
             ELSE rest
    ELSE <<>>

\* detect_music_frames: slide the window while it fully fits; `active` is the set
\* of frame indices whose scores satisfy the activation predicate.
RECURSIVE DetectLoop(_, _, _, _)
DetectLoop(total_samples, active, frame_idx, sample_pos) ==
    IF sample_pos + TFLITE_INPUT_LENGTH <= total_samples
    THEN LET start == frame_idx * FRAME_HOP
             rest  == DetectLoop(total_samples, active, frame_idx + 1, sample_pos + HopSamples)
         IN  IF frame_idx \in active
             THEN <<[start |-> start, end |-> start + FRAME_DURATION]>> \o rest
             ELSE rest
    ELSE <<>>

detect_music_frames(total_samples, active) == DetectLoop(total_samples, active, 0, 0)

\* a scan that forgets the interval still open when the frames run out
RECURSIVE MergeScanDropsLast(_, _, _, _, _)
MergeScanDropsLast(music_frames, k, cur_start, cur_end, merge_gap) ==
    IF k > Len(music_frames)
    THEN <<>>
    ELSE LET f == music_frames[k]
         IN  IF f.start - cur_end <= merge_gap
             THEN MergeScanDropsLast(music_frames, k + 1, cur_start, Max(cur_end, f.end), merge_gap)
             ELSE <<[start |-> cur_start, end |-> cur_end]>>
                  \o MergeScanDropsLast(music_frames, k + 1, f.start, f.end, merge_gap)

\* a scan that joins a frame only when the gap is strictly below merge_gap
RECURSIVE MergeScanStrict(_, _, _, _, _)
MergeScanStrict(music_frames, k, cur_start, cur_end, merge_gap) ==
    IF k > Len(music_frames)
    THEN <<[start |-> cur_start, end |-> cur_end]>>
    ELSE LET f == music_frames[k]
         IN  IF f.start - cur_end < merge_gap
             THEN MergeScanStrict(music_frames, k + 1, cur_start, Max(cur_end, f.end), merge_gap)
             ELSE <<[start |-> cur_start, end |-> cur_end]>>
                  \o MergeScanStrict(music_frames, k + 1, f.start, f.end, merge_gap)

\* the scan of _merge_frames_to_segments from frame k on, with the running interval
RECURSIVE MergeScan(_, _, _, _, _)
MergeScan(music_frames, k, cur_start, cur_end, merge_gap) ==
    IF k > Len(music_frames)
    THEN <<[start |-> cur_start, end |-> cur_end]>>
    ELSE LET f == music_frames[k]
         IN  IF f.start - cur_end <= merge_gap
             THEN MergeScan(music_frames, k + 1, cur_start, Max(cur_end, f.end), merge_gap)
             ELSE <<[start |-> cur_start, end |-> cur_end]>>
                  \o MergeScan(music_frames, k + 1, f.start, f.end, merge_gap)

\* a merger without the final length filter
MergeKeepsShort(music_frames, merge_gap, min_segment_duration) ==
    IF music_frames = <<>>
    THEN <<>>
    ELSE MergeScan(music_frames, 2, music_frames[1].start, music_frames[1].end, merge_gap)

_merge_frames_to_segments(music_frames, merge_gap, min_segment_duration) ==
    IF music_frames = <<>>
    THEN <<>>
    ELSE SelectSeq(MergeScan(music_frames, 2, music_frames[1].start, music_frames[1].end, merge_gap),
                   LAMBDA g : g.end - g.start >= min_segment_duration)

\* hop_duration = hop / sr = 512 / 22050 s, kept as the reduced fraction HopNum / HopDen ticks
HopNum == (HOP_LENGTH * TICKS_PER_SEC) \div 50
HopDen == SR_CHROMA \div 50
\* i * hop_duration, in ticks rounded down
HopTime(i) == (i * HopNum) \div HopDen
\* seg_start + i * hop_duration as an exact count of 1/HopDen ticks
AbsTime(seg_start, i) == seg_start * HopDen + i * HopNum
\* round(x, 2) of the exact time n / HopDen ticks: to the nearest hundredth, ties to even
Round2Frac(n) ==
    LET unit == CENTI * HopDen
        q == n \div unit
        r == n % unit
    IN  IF 2 * r < unit THEN q * CENTI
        ELSE IF 2 * r > unit THEN (q + 1) * CENTI
        ELSE IF q % 2 = 0 THEN q * CENTI ELSE (q + 1) * CENTI
\* length of the change signal of a range of `dur` ticks: one value per hop of the loaded samples
NumHops(dur) == (dur * HopDen) \div HopNum

\* an acceptance loop that takes every candidate, however close to the last boundary
RECURSIVE BoundaryScanAcceptsAll(_, _, _, _, _)
BoundaryScanAcceptsAll(seg_start, cands, n, last_b, min_gap) ==
    LET live == {i \in cands : i < n}
    IN  IF live = {}
        THEN <<>>
        ELSE LET i == CHOOSE x \in live : \A y \in live : x <= y
             IN  <<Round2Frac(AbsTime(seg_start, i))>>
                 \o BoundaryScanAcceptsAll(seg_start, {x \in live : x > i}, n, last_b, min_gap)

\* the greedy acceptance loop of find_boundaries_in_segment; `cands` is the set of hop
\* indices whose change value reaches the threshold, visited in increasing order
\* (the hops in between change nothing); abs_time and last_b are kept exact, as counts
\* of 1/HopDen ticks
RECURSIVE BoundaryScan(_, _, _, _, _)
BoundaryScan(seg_start, cands, n, last_b, min_gap) ==
    LET live == {i \in cands : i < n}
    IN  IF live = {}
        THEN <<>>
        ELSE LET i == CHOOSE x \in live : \A y \in live : x <= y
                 abs_time == AbsTime(seg_start, i)
                 rest == {x \in live : x > i}
             IN  IF abs_time - last_b >= min_gap * HopDen
                 THEN <<Round2Frac(abs_time)>> \o BoundaryScan(seg_start, rest, n, abs_time, min_gap)
                 ELSE BoundaryScan(seg_start, rest, n, last_b, min_gap)

\* for i, change in enumerate(combined): if change >= chroma_threshold; combined maps
\* hop indices to change values in hundredths
Candidates(combined, chroma_threshold) ==
    {i \in DOMAIN combined : combined[i] >= chroma_threshold}

\* the threshold that reaches find_boundaries_in_segment in a run that was given
\* chroma_threshold = supplied: identify_with_yamnet passes only confidence_threshold and
\* min_segment_duration to YAMNetDetector(...), and get_music_segments calls
\* find_boundaries_in_segment(audio_path, seg_start, seg_end), so the default applies
RunChromaThreshold(supplied) == CHROMA_THRESHOLD

find_boundaries_in_segment(seg_start, seg_end, cands) ==
    IF seg_end - seg_start < MIN_ANALYSIS
    THEN <<>>
    ELSE BoundaryScan(seg_start, cands, NumHops(seg_end - seg_start),
                      (0 - MIN_BOUNDARY_GAP) * HopDen, MIN_BOUNDARY_GAP)

\* sorted(valid)
RECURSIVE Insert(_, _)
Insert(x, sq) ==
    IF sq = <<>> THEN <<x>>
    ELSE IF x < Head(sq) THEN <<x>> \o sq
    ELSE <<Head(sq)>> \o Insert(x, Tail(sq))

RECURSIVE Sorted(_)
Sorted(sq) == IF sq = <<>> THEN <<>> ELSE Insert(Head(sq), Sorted(Tail(sq)))

\* a split that cuts at every boundary it is given, in or out of the segment
SplitKeepsAll(seg_start, seg_end, boundaries) ==
    IF boundaries = <<>>
    THEN <<[start |-> seg_start, end |-> seg_end]>>
    ELSE LET points == <<seg_start>> \o Sorted(boundaries) \o <<seg_end>>
         IN  [i \in 1..(Len(points) - 1) |-> [start |-> points[i], end |-> points[i + 1]]]

split_segment_at_boundaries(seg_start, seg_end, boundaries) ==
    LET valid == SelectSeq(boundaries, LAMBDA b : seg_start < b /\ b < seg_end)
    IN  IF valid = <<>>
        THEN <<[start |-> seg_start, end |-> seg_end]>>
        ELSE LET points == <<seg_start>> \o Sorted(valid) \o <<seg_end>>
             IN  [i \in 1..(Len(points) - 1) |-> [start |-> points[i], end |-> points[i + 1]]]

\* the loop of get_music_segments over the coarse segments; candsOf[k] is the change
\* signal's candidate hop set inside coarse segment k
RECURSIVE RefineFrom(_, _, _)
RefineFrom(coarse, candsOf, k) ==
    IF k > Len(coarse)
    THEN <<>>
    ELSE LET c == coarse[k]
             boundaries == find_boundaries_in_segment(c.start, c.end, candsOf[k])
             fine == split_segment_at_boundaries(c.start, c.end, boundaries)
         IN  [i \in 1..Len(fine) |-> [start |-> Round2(fine[i].start), end |-> Round2(fine[i].end)]]
             \o RefineFrom(coarse, candsOf, k + 1)

get_music_segments(total_samples, active, candsOf, min_segment_duration) ==
    LET music_frames == detect_music_frames(total_samples, active)
        coarse == _merge_frames_to_segments(music_frames, MERGE_GAP, min_segment_duration)
    IN  IF music_frames = <<>> THEN <<>>
        ELSE IF coarse = <<>> THEN <<>>
        ELSE RefineFrom(coarse, candsOf, 1)


\* ------------------------------------------------------------ ACRCloudService
\* what one request to the oracle can come back as: the transport outcome and, when a
\* JSON body arrives, its shape (the 'status' block's code, a top-level 'code', and
\* metadata.music: absent, an empty list, or a first track with the given acrid)
Transports == {"ok", "network", "nofile", "other"}
StatusCodes == {"absent", "nocode", "0", "1", "err"}
TopCodes == {"absent", "0", "1", "err"}
MusicLists == {"absent", "empty"} \cup Acrids
Responses == [transport : {"ok"}, status : StatusCodes, top : TopCodes, music : MusicLists]
             \cup [transport : Transports \ {"ok"}, status : {"absent"}, top : {"absent"}, music : {"absent"}]

Matched(acrid) == [copyrighted |-> "True", acrid |-> acrid, error |-> ""]
NotMatched == [copyrighted |-> "False", acrid |-> "", error |-> ""]
Failed(e) == [copyrighted |-> "None", acrid |-> "", error |-> e]

\* src/service.py: the 'status' block first, then a top-level 'code', else invalid
ParseRoot(r) ==
    LET byTop ==
            IF r.top /= "absent"
            THEN IF r.top = "0"
                 THEN IF r.music \in Acrids THEN Matched(r.music) ELSE Failed("Invalid response")
                 ELSE IF r.top = "1" THEN NotMatched ELSE Failed("API Error")
            ELSE Failed("Invalid response")
    IN  IF r.status /= "absent"
        THEN IF r.status = "0"
             THEN IF r.music \in Acrids THEN Matched(r.music) ELSE byTop
             ELSE IF r.status = "1" THEN NotMatched ELSE Failed("API Error")
        ELSE byTop

\* src/app/services/service.py: status_block = result.get('status') or result
ParseApp(r) ==
    LET code == IF r.status /= "absent" THEN r.status ELSE r.top
    IN  IF code = "0"
        THEN IF r.music \in Acrids THEN Matched(r.music) ELSE Failed("Invalid response")
        ELSE IF code = "1" THEN NotMatched
        ELSE Failed("API Error")

_parse_result(v, r) == IF v = "root" THEN ParseRoot(r) ELSE ParseApp(r)

\* identify: every exception becomes a result value
identify(v, r) ==
    IF r.transport = "ok" THEN _parse_result(v, r)
    ELSE IF r.transport = "nofile" THEN Failed("File not found")
    ELSE IF r.transport = "network" THEN Failed("Network error")
    ELSE Failed("Error")

\* a probe loop without the two-second tail floor
RECURSIVE ProbeLoopNoFloor(_, _, _)
ProbeLoopNoFloor(current, seg_end, probe_interval) ==
    IF current < seg_end
    THEN <<current>> \o ProbeLoopNoFloor(current + probe_interval, seg_end, probe_interval)
    ELSE <<>>

RECURSIVE ProbeLoop(_, _, _)
ProbeLoop(current, seg_end, probe_interval) ==
    IF current < seg_end - TAIL_FLOOR
    THEN <<current>> \o ProbeLoop(current + probe_interval, seg_end, probe_interval)
    ELSE <<>>

\* a probe list that holds the first probe only
ProbePointsFirstOnly(seg_start, seg_end, probe_interval) ==
    IF seg_start < seg_end - TAIL_FLOOR THEN <<seg_start>> ELSE <<>>

_get_probe_points(seg_start, seg_end, probe_interval) == ProbeLoop(seg_start, seg_end, probe_interval)


\* _merge_segments(segments, gap_threshold = 3) of src/service.py: sort by start, fold the
\* next hit into the last output segment when it starts within the gap, then set durations.
\* list.sort is stable: of two hits with one start the earlier in the list stays first
RECURSIVE InsertByStart(_, _)
InsertByStart(x, sq) ==
    IF sq = <<>> THEN <<x>>
    ELSE IF x.start <= Head(sq).start THEN <<x>> \o sq
    ELSE <<Head(sq)>> \o InsertByStart(x, Tail(sq))

RECURSIVE SortByStart(_)
SortByStart(sq) == IF sq = <<>> THEN <<>> ELSE InsertByStart(Head(sq), SortByStart(Tail(sq)))

RECURSIVE MergeHits(_, _, _)
MergeHits(merged, rest, gap_threshold) ==
    IF rest = <<>>
    THEN merged
    ELSE LET seg == Head(rest)
             n == Len(merged)
         IN  IF seg.start - merged[n].end <= gap_threshold
             THEN MergeHits([merged EXCEPT ![n].end = seg.end], Tail(rest), gap_threshold)
             ELSE MergeHits(Append(merged, seg), Tail(rest), gap_threshold)

_merge_segments(segments, gap_threshold) ==
    IF segments = <<>>
    THEN <<>>
    ELSE LET sorted == SortByStart(segments)
             merged == MergeHits(<<sorted[1]>>, Tail(sorted), gap_threshold)
         IN  [i \in 1..Len(merged) |->
                 [merged[i] EXCEPT !.duration = Round2(merged[i].end - merged[i].start)]]

\* merge_overlapping_segments(segments) of src/app/services/service.py: sort by start; a hit
\* that starts inside the last output segment replaces it when it is longer, and is dropped
\* otherwise; any other hit is appended
RECURSIVE OverlapLoop(_, _)
OverlapLoop(merged, rest) ==
    IF rest = <<>>
    THEN merged
    ELSE LET cur == Head(rest)
             n == Len(merged)
         IN  IF cur.start <= merged[n].end
             THEN IF cur.duration > merged[n].duration
                  THEN OverlapLoop([merged EXCEPT ![n] = cur], Tail(rest))
                  ELSE OverlapLoop(merged, Tail(rest))
             ELSE OverlapLoop(Append(merged, cur), Tail(rest))

merge_overlapping_segments(segments) ==
    IF segments = <<>>
    THEN <<>>
    ELSE LET sorted == SortByStart(segments)
         IN  OverlapLoop(<<sorted[1]>>, Tail(sorted))

\* ------------------------------------------------------------ state
VARIABLES
    variant,              \* which copy of the program runs
    entry,                \* the entry point called: "yamnet", "timeline" or "identify"
    model_present,        \* yamnet.tflite exists
    class_map_present,    \* yamnet_class_map.csv exists
    wave,                 \* the decoded recording: total_samples, and the frames that score as active
    detector_instance,    \* the template handed to identify_with_yamnet ("None" or "template")
    detector,             \* the run's own YAMNetDetector: interpreter (0 = None), class_names loaded
    pc,                   \* position of the run
    candidate_segments,   \* fine segments returned by get_music_segments
    seg_i,                \* index of the candidate segment being probed
    probe_points,         \* probe starts of that segment still to query
    probe,                \* (probe_start, probe_end) of the probe or window in hand
    chunks,               \* temporary clip files on disk
    result,               \* identify()'s result for the probe or window in hand
    confirmed_segments,   \* the stitcher's list
    total_duration,       \* identify_with_timeline: the duration ffprobe reports
    current,              \* identify_with_timeline: start of the next window
    segments,             \* identify_with_timeline: the raw hits
    run_result,           \* what the entry point returned
    raised,               \* an exception left the entry point
    failure,              \* the run-level failure that occurred ("" when none)
    queries,              \* requests sent to the oracle
    log,                  \* the probes answered so far, in order: (start, end, verdict)
    invalid_seen,         \* some probe's response had an unexpected shape
    YAMNET_AVAILABLE,     \* the classifier's libraries could be imported
    yamnet_detector_instance, \* the module global: "None" until the startup thread publishes
    template,             \* the detector the startup thread is loading
    loader,               \* position of preload_yamnet and its thread
    jobs,                 \* the job table, with each job thread's position and locals
    next_interpreter,     \* the next interpreter handle tflite.Interpreter(...) hands out
    unit,                 \* a method called on its own: its name and arguments
    unit_out              \* what that call has produced so far

jobVars == <<YAMNET_AVAILABLE, yamnet_detector_instance, template, loader, jobs, next_interpreter>>
unitVars == <<unit, unit_out>>
inputVars == <<variant, entry, model_present, class_map_present, wave, detector_instance, total_duration,
               jobVars, unitVars>>
yamnetVars == <<detector, candidate_segments, seg_i, probe_points, confirmed_segments, log, invalid_seen>>
timelineVars == <<current, segments>>
commonVars == <<pc, probe, chunks, result, run_result, raised, failure, queries>>

runVars == <<variant, entry, model_present, class_map_present, wave, detector_instance, total_duration,
             yamnetVars, timelineVars, commonVars, unitVars>>
\* everything but the call of a method on its own
progVars == <<variant, entry, model_present, class_map_present, wave, detector_instance, total_duration,
              yamnetVars, timelineVars, commonVars, jobVars>>

vars == <<inputVars, yamnetVars, timelineVars, commonVars>>

NoResult == [copyrighted |-> "unset", segments |-> <<>>, error |-> ""]
NoProbe == [start |-> 0, end |-> 0]
NoDetector == [interpreter |-> 0, class_names |-> FALSE]
\* interpreter handles: the preloaded template's, and the one a run allocates
TemplateInterpreter == 1
RunInterpreter == 2
\* the detector the startup thread loaded and published
TemplateDetector == [interpreter |-> TemplateInterpreter, class_names |-> TRUE]

\* ------------------------------------------------------------ inputs
\* a waveform long enough for NumFrames analysis windows
FullSamples == (NumFrames - 1) * HopSamples + TFLITE_INPUT_LENGTH
\* frame indices at which an active run may start or stop
Marks == {0, 20, 28, NumFrames - 1}
ActiveChoices ==
    {{}} \cup {lo..hi : lo \in Marks, hi \in Marks}
         \cup {(a..b) \cup (c..d) : a \in Marks, b \in Marks, c \in Marks, d \in Marks}
Waves ==
    {[total_samples |-> FullSamples, active |-> a] : a \in ActiveChoices}
    \cup {[total_samples |-> TFLITE_INPUT_LENGTH - 1, active |-> {}]}
NoWave == [total_samples |-> 0, active |-> {}]
\* hop indices of a coarse segment whose change value reaches the threshold
HopChoices == {{}, {517}, {0, 517, 600, 861}}
\* durations ffprobe may report, in whole seconds
Durations == {d * TICKS_PER_SEC : d \in 0..MaxDurationSec}

\* ------------------------------------------------------------ the classifier-path run
\* load_model: FileNotFoundError when a file is missing. src/yamnet_detector.py allocates
\* the interpreter before it looks for the class map; src/app/... checks both files first.
\* handle is the interpreter tflite.Interpreter(...) would hand out
load_model(v, det, mp, cp, handle) ==
    IF det.interpreter /= 0 THEN [raised |-> FALSE, detector |-> det]
    ELSE IF ~mp THEN [raised |-> TRUE, detector |-> det]
    ELSE IF ~cp
         THEN [raised |-> TRUE,
               detector |-> IF v = "root" THEN [det EXCEPT !.interpreter = handle] ELSE det]
    ELSE [raised |-> FALSE, detector |-> [interpreter |-> handle, class_names |-> TRUE]]

\* a clone that keeps the interpreter of the detector it was made from
cloneSharing(tmpl, mp, handle) ==
    IF ~mp THEN [raised |-> TRUE, detector |-> NoDetector]
    ELSE [raised |-> FALSE, detector |-> tmpl]

\* clone(): a new interpreter on the same model file, the template's taxonomy shared
clone(tmpl, mp, handle) ==
    IF ~mp THEN [raised |-> TRUE, detector |-> NoDetector]
    ELSE [raised |-> FALSE, detector |-> [interpreter |-> handle, class_names |-> tmpl.class_names]]

\* an entry point without its except clause: the exception leaves it
ExceptHandlerMissing(e) ==
    [raised |-> TRUE, run_result |-> [copyrighted |-> "unset", segments |-> <<>>, error |-> ""]]

\* except Exception as e: return {"copyrighted": None, "error": str(e)}
ExceptHandler(e) ==
    [raised |-> FALSE, run_result |-> [copyrighted |-> "None", segments |-> <<>>, error |-> e]]

\* an exception inside the entry point's try block ends the run
Throw(e) ==
    /\ pc' = "done"
    /\ failure' = e
    /\ run_result' = ExceptHandler(e).run_result
    /\ raised' = ExceptHandler(e).raised

\* detector = detector_instance.clone() / YAMNetDetector(...)
Construct ==
    /\ pc = "start"
    /\ IF variant = "app" /\ detector_instance /= "None"
       THEN LET c == clone(TemplateDetector, model_present, RunInterpreter)
            IN  IF c.raised
                THEN /\ Throw("clone failed")
                     /\ UNCHANGED detector
                ELSE /\ detector' = c.detector
                     /\ pc' = "detect"
                     /\ UNCHANGED <<run_result, raised, failure>>
       ELSE /\ detector' = NoDetector
            /\ pc' = "detect"
            /\ UNCHANGED <<run_result, raised, failure>>
    /\ UNCHANGED <<inputVars, timelineVars, candidate_segments, seg_i, probe_points, probe, chunks,
                   result, confirmed_segments, queries, log, invalid_seen>>

\* candidate_segments = detector.get_music_segments(audio_file_path); if not candidate_segments: return
GetMusicSegments ==
    /\ pc = "detect"
    /\ \E decoded \in BOOLEAN :
         IF ~decoded
         THEN /\ Throw("decode failed")
              /\ UNCHANGED <<detector, candidate_segments, seg_i, confirmed_segments>>
         ELSE LET l == load_model(variant, detector, model_present, class_map_present, RunInterpreter)
              IN  /\ detector' = l.detector
                  /\ IF l.raised
                     THEN /\ Throw("model not found")
                          /\ UNCHANGED <<candidate_segments, seg_i, confirmed_segments>>
                     ELSE \E candsOf \in [1..2 -> HopChoices] :
                            LET segs == get_music_segments(wave.total_samples, wave.active,
                                                           candsOf, MIN_SEGMENT_DURATION)
                            IN  /\ candidate_segments' = segs
                                /\ confirmed_segments' = <<>>
                                /\ seg_i' = 1
                                /\ UNCHANGED <<raised, failure>>
                                /\ IF segs = <<>>
                                   THEN /\ pc' = "done"
                                        /\ run_result' = [copyrighted |-> "False", segments |-> <<>>, error |-> ""]
                                   ELSE /\ pc' = "seg"
                                        /\ UNCHANGED run_result
    /\ UNCHANGED <<inputVars, timelineVars, probe_points, probe, chunks, result, queries, log,
                   invalid_seen>>

\* for seg in candidate_segments: ... probe_points = self._get_probe_points(start, end, 8.0)
BeginSegment ==
    /\ pc = "seg"
    /\ seg_i <= Len(candidate_segments)
    /\ LET seg == candidate_segments[seg_i]
       IN  IF variant = "app" /\ seg.end - seg.start < TAIL_FLOOR
           THEN /\ seg_i' = seg_i + 1
                /\ UNCHANGED <<pc, probe_points>>
           ELSE /\ probe_points' = _get_probe_points(seg.start, seg.end, PROBE_INTERVAL)
                /\ pc' = "probe"
                /\ UNCHANGED seg_i
    /\ UNCHANGED <<inputVars, timelineVars, detector, candidate_segments, probe, chunks, result,
                   confirmed_segments, run_result, raised, failure, queries, log, invalid_seen>>

\* probe_end = min(probe_start + 12.0, end); chunk_path = self._extract_chunk(...)
\* _extract_chunk creates the temporary file, then runs ffmpeg: a failing ffmpeg leaves an
\* unusable clip, a missing ffmpeg binary raises out of subprocess.run
ExtractChunk ==
    /\ pc = "probe"
    /\ IF probe_points = <<>>
       THEN /\ seg_i' = seg_i + 1
            /\ pc' = "seg"
            /\ UNCHANGED <<probe_points, probe, chunks, run_result, raised, failure>>
       ELSE LET probe_start == Head(probe_points)
                probe_end == Min(probe_start + PROBE_WINDOW, candidate_segments[seg_i].end)
            IN  /\ probe_points' = Tail(probe_points)
                /\ probe' = [start |-> probe_start, end |-> probe_end]
                /\ chunks' = chunks + 1
                /\ UNCHANGED seg_i
                /\ \E ffmpeg \in {"ran", "missing"} :
                     IF ffmpeg = "missing"
                     THEN Throw("ffmpeg not found")
                     ELSE /\ pc' = "identify"
                          /\ UNCHANGED <<run_result, raised, failure>>
    /\ UNCHANGED <<inputVars, timelineVars, detector, candidate_segments, result,
                   confirmed_segments, queries, log, invalid_seen>>

\* a request reaches the oracle unless the clip cannot be read first
Sent(r) == IF r.transport = "nofile" THEN 0 ELSE 1

\* try: result = self.identify(chunk_path)  finally: os.unlink(chunk_path)
Identify ==
    /\ pc = "identify"
    /\ \E r \in Responses :
         /\ result' = identify(variant, r)
         /\ queries' = queries + Sent(r)
         /\ invalid_seen' = (invalid_seen \/ identify(variant, r).error = "Invalid response")
    /\ chunks' = chunks - 1
    /\ pc' = "stitch"
    /\ UNCHANGED <<inputVars, timelineVars, detector, candidate_segments, seg_i, probe_points,
                   probe, confirmed_segments, run_result, raised, failure, log>>

\* a stitcher that never extends: every matched probe appends
StitchedAlwaysAppend(confirmed, p, res) ==
    IF res.copyrighted = "True"
    THEN Append(confirmed, [start |-> Round2(p.start), end |-> Round2(p.end),
                            duration |-> Round2(p.end - p.start), acrid |-> res.acrid])
    ELSE confirmed

\* a stitcher whose extension recomputes nothing: the latest segment keeps its end
StitchedKeepsEnd(confirmed, p, res) ==
    LET n == Len(confirmed)
    IN  IF res.copyrighted = "True"
        THEN IF n > 0 /\ res.acrid /= NoId /\ res.acrid = confirmed[n].acrid
             THEN confirmed
             ELSE Append(confirmed, [start |-> Round2(p.start), end |-> Round2(p.end),
                                     duration |-> Round2(p.end - p.start), acrid |-> res.acrid])
        ELSE confirmed

\* a stitcher that treats a failed probe as the end of the evidence: the list is dropped
StitchedDropsOnFailure(confirmed, p, res) ==
    LET n == Len(confirmed)
    IN  IF res.copyrighted = "True"
        THEN IF n > 0 /\ res.acrid /= NoId /\ res.acrid = confirmed[n].acrid
             THEN [confirmed EXCEPT ![n].end = Round2(p.end),
                                    ![n].duration = Round2(p.end - confirmed[n].start)]
             ELSE Append(confirmed, [start |-> Round2(p.start), end |-> Round2(p.end),
                                     duration |-> Round2(p.end - p.start), acrid |-> res.acrid])
        ELSE IF res.copyrighted = "None" THEN <<>> ELSE confirmed

\* a stitcher that extends only a segment the probe overlaps: a probe that starts at or
\* after the end of the latest segment opens a new one
StitchedWithinReach(confirmed, p, res) ==
    LET n == Len(confirmed)
    IN  IF res.copyrighted = "True"
        THEN IF n > 0 /\ res.acrid /= NoId /\ res.acrid = confirmed[n].acrid
                /\ p.start < confirmed[n].end
             THEN [confirmed EXCEPT ![n].end = Round2(p.end),
                                    ![n].duration = Round2(p.end - confirmed[n].start)]
             ELSE Append(confirmed, [start |-> Round2(p.start), end |-> Round2(p.end),
                                     duration |-> Round2(p.end - p.start), acrid |-> res.acrid])
        ELSE confirmed

\* a stitcher that compares the ids only: two matches without an acrid count as one song
StitchedEqualIds(confirmed, p, res) ==
    LET n == Len(confirmed)
    IN  IF res.copyrighted = "True"
        THEN IF n > 0 /\ res.acrid = confirmed[n].acrid
             THEN [confirmed EXCEPT ![n].end = Round2(p.end),
                                    ![n].duration = Round2(p.end - confirmed[n].start)]
             ELSE Append(confirmed, [start |-> Round2(p.start), end |-> Round2(p.end),
                                     duration |-> Round2(p.end - p.start), acrid |-> res.acrid])
        ELSE confirmed

\* a stitcher whose extension moves the end and leaves the duration as it was
StitchedStaleDuration(confirmed, p, res) ==
    LET n == Len(confirmed)
    IN  IF res.copyrighted = "True"
        THEN IF n > 0 /\ res.acrid /= NoId /\ res.acrid = confirmed[n].acrid
             THEN [confirmed EXCEPT ![n].end = Round2(p.end)]
             ELSE Append(confirmed, [start |-> Round2(p.start), end |-> Round2(p.end),
                                     duration |-> Round2(p.end - p.start), acrid |-> res.acrid])
        ELSE confirmed

\* the stitcher: extend the latest confirmed segment on the same acrid, else append
Stitched(confirmed, p, res) ==
    LET acrid == res.acrid
        n == Len(confirmed)
        prev_acrid == IF n > 0 THEN confirmed[n].acrid ELSE NoId
    IN  IF res.copyrighted = "True"
        THEN IF n > 0 /\ acrid /= NoId /\ acrid = prev_acrid
             THEN [confirmed EXCEPT ![n].end = Round2(p.end),
                                    ![n].duration = Round2(p.end - confirmed[n].start)]
             ELSE Append(confirmed, [start |-> Round2(p.start), end |-> Round2(p.end),
                                     duration |-> Round2(p.end - p.start), acrid |-> acrid])
        ELSE confirmed

Stitch ==
    /\ pc = "stitch"
    /\ confirmed_segments' = Stitched(confirmed_segments, probe, result)
    /\ log' = Append(log, [start |-> probe.start, end |-> probe.end,
                           verdict |-> IF result.copyrighted = "True" THEN result.acrid ELSE "miss"])
    /\ pc' = "probe"
    /\ UNCHANGED <<inputVars, timelineVars, detector, candidate_segments, seg_i, probe_points,
                   probe, chunks, result, run_result, raised, failure, queries, invalid_seen>>

\* a return that reports a hit whatever the list holds
RunReturnAlwaysTrue(confirmed) ==
    [copyrighted |-> "True", segments |-> confirmed, error |-> ""]

\* return {"copyrighted": len(confirmed_segments) > 0, "segments": confirmed_segments}
RunReturn(confirmed) ==
    [copyrighted |-> IF Len(confirmed) > 0 THEN "True" ELSE "False",
     segments |-> confirmed, error |-> ""]

Return ==
    /\ pc = "seg"
    /\ seg_i > Len(candidate_segments)
    /\ run_result' = RunReturn(confirmed_segments)
    /\ pc' = "done"
    /\ UNCHANGED <<inputVars, timelineVars, yamnetVars, probe, chunks, result, raised, failure,
                   queries>>

\* ------------------------------------------------------------ the fallback timeline run
\* total_duration = float(ffprobe's output): an unreadable file leaves nothing to parse
ProbeDuration ==
    /\ pc = "t_start"
    /\ \E ffprobe \in {"ok", "failed"} :
         IF ffprobe = "failed"
         THEN /\ Throw("could not convert string to float")
              /\ UNCHANGED <<current, segments>>
         ELSE /\ current' = 0
              /\ segments' = <<>>
              /\ pc' = "t_loop"
              /\ UNCHANGED <<run_result, raised, failure>>
    /\ UNCHANGED <<inputVars, yamnetVars, probe, chunks, result, queries>>

\* while current < total_duration: cut the window [current, current + chunk_seconds]
ExtractWindow ==
    /\ pc = "t_loop"
    /\ current < total_duration
    /\ probe' = [start |-> current, end |-> current + CHUNK_SECONDS]
    /\ chunks' = chunks + 1
    /\ \E ffmpeg \in {"ran", "missing"} :
         IF ffmpeg = "missing"
         THEN Throw("ffmpeg not found")
         ELSE /\ pc' = "t_identify"
              /\ UNCHANGED <<run_result, raised, failure>>
    /\ UNCHANGED <<inputVars, yamnetVars, timelineVars, result, queries>>

\* a window loop that moves on by the whole window: current += chunk_seconds
IdentifyWindowNoOverlap ==
    /\ pc = "t_identify"
    /\ \E r \in Responses :
         LET res == identify(variant, r)
         IN  /\ result' = res
             /\ queries' = queries + Sent(r)
             /\ segments' = IF res.copyrighted = "True"
                            THEN Append(segments, [start |-> probe.start, end |-> probe.end,
                                                   duration |-> 0, acrid |-> res.acrid])
                            ELSE segments
    /\ chunks' = chunks - 1
    /\ current' = current + CHUNK_SECONDS
    /\ pc' = "t_loop"
    /\ UNCHANGED <<inputVars, yamnetVars, probe, run_result, raised, failure>>

\* result = self.identify(chunk_path); a hit is appended; os.unlink(chunk_path); current += step
IdentifyWindow ==
    /\ pc = "t_identify"
    /\ \E r \in Responses :
         LET res == identify(variant, r)
         IN  /\ result' = res
             /\ queries' = queries + Sent(r)
             /\ segments' = IF res.copyrighted = "True"
                            THEN Append(segments, [start |-> probe.start, end |-> probe.end,
                                                   duration |-> 0, acrid |-> res.acrid])
                            ELSE segments
    /\ chunks' = chunks - 1
    /\ current' = current + (CHUNK_SECONDS - OVERLAP_SECONDS)
    /\ pc' = "t_loop"
    /\ UNCHANGED <<inputVars, yamnetVars, probe, run_result, raised, failure>>

\* whether the class defines the _merge_segments method identify_with_timeline calls:
\* src/service.py does; src/app/services/service.py defines merge_overlapping_segments only
HasMergeSegments(v) == v = "root"

\* merged = self._merge_segments(segments); return {"copyrighted": len(merged) > 0, ...}
TimelineReturn ==
    /\ pc = "t_loop"
    /\ current >= total_duration
    /\ IF HasMergeSegments(variant)
       THEN /\ run_result' = RunReturn(_merge_segments(segments, GAP_THRESHOLD))
            /\ pc' = "done"
            /\ UNCHANGED <<raised, failure>>
       ELSE Throw("object has no attribute _merge_segments")
    /\ UNCHANGED <<inputVars, yamnetVars, timelineVars, probe, chunks, result, queries>>

\* ------------------------------------------------------------ identify called on its own
IdentifyEntry ==
    /\ pc = "i_start"
    /\ \E r \in Responses :
         LET res == identify(variant, r)
         IN  /\ result' = res
             /\ queries' = queries + Sent(r)
             /\ failure' = res.error
             /\ run_result' = [copyrighted |-> res.copyrighted, segments |-> <<>>, error |-> res.error]
    /\ pc' = "done"
    /\ UNCHANGED <<inputVars, yamnetVars, timelineVars, probe, chunks, raised>>

\* ------------------------------------------------------------ the job layer
Jobs == 1..NumJobs

\* jobs[job_id] = {"status": ..., "result": ..., "error": ...} and the job thread's locals
NoJob ==
    [status |-> "absent", result |-> "None", error |-> "None", pc |-> "absent", waited |-> 0,
     expired |-> FALSE, arg |-> "None", detector |-> NoDetector, detection_result |-> "unset",
     exception |-> ""]

\* what an entry point can hand back to the job: its copyrighted field
RunOutcomes == {"True", "False", "None"}

\* the job thread of j takes a step that leaves its entry and locals as f
Step(j, f) == jobs' = [jobs EXCEPT ![j] = f]

\* the job thread returns: its locals are gone, the table entry stays
Ended(job) ==
    [NoJob EXCEPT !.status = job.status, !.result = job.result, !.error = job.error,
                  !.expired = job.expired, !.pc = "end"]

\* @app.on_event("startup"): return when the classifier is unavailable, else start _load
preload_yamnet ==
    /\ loader = "idle"
    /\ loader' = IF YAMNET_AVAILABLE THEN "loading" ELSE "off"
    /\ UNCHANGED <<runVars, YAMNET_AVAILABLE, yamnet_detector_instance, template, jobs,
                   next_interpreter>>

\* a loader that goes on to publish whatever load_model left behind
LoadTemplateIgnoresFailure ==
    /\ loader = "loading"
    /\ LET l == load_model(variant, NoDetector, model_present, class_map_present, next_interpreter)
       IN  /\ template' = l.detector
           /\ next_interpreter' = IF l.detector.interpreter /= 0
                                  THEN next_interpreter + 1 ELSE next_interpreter
           /\ loader' = "loaded"
    /\ UNCHANGED <<runVars, YAMNET_AVAILABLE, yamnet_detector_instance, jobs>>

\* _load: detector = YAMNetDetector(); detector.load_model(); a failure is logged and dropped
LoadTemplate ==
    /\ loader = "loading"
    /\ LET l == load_model(variant, NoDetector, model_present, class_map_present, next_interpreter)
       IN  /\ template' = l.detector
           /\ next_interpreter' = IF l.detector.interpreter /= 0
                                  THEN next_interpreter + 1 ELSE next_interpreter
           /\ loader' = IF l.raised THEN "failed" ELSE "loaded"
    /\ UNCHANGED <<runVars, YAMNET_AVAILABLE, yamnet_detector_instance, jobs>>

\* _load: yamnet_detector_instance = detector
PublishTemplate ==
    /\ loader = "loaded"
    /\ yamnet_detector_instance' = "template"
    /\ loader' = "published"
    /\ UNCHANGED <<runVars, YAMNET_AVAILABLE, template, jobs, next_interpreter>>

\* POST /api/detect: jobs[job_id] = {"status": "queued", ...}; the job thread is started
detect_from_file(j) ==
    /\ loader /= "idle"
    /\ jobs[j].status = "absent"
    /\ Step(j, [jobs[j] EXCEPT !.status = "queued", !.pc = "start"])
    /\ UNCHANGED <<runVars, YAMNET_AVAILABLE, yamnet_detector_instance, template, loader,
                   next_interpreter>>

\* jobs[job_id]["status"] = "processing"; if YAMNET_AVAILABLE: waited = 0
JobBegin(j) ==
    /\ jobs[j].pc = "start"
    /\ Step(j, [jobs[j] EXCEPT !.status = "processing", !.waited = 0,
                               !.pc = IF YAMNET_AVAILABLE THEN "wait" ELSE "timeline"])
    /\ UNCHANGED <<runVars, YAMNET_AVAILABLE, yamnet_detector_instance, template, loader,
                   next_interpreter>>

\* while yamnet_detector_instance is None and waited < 60: time.sleep(3); waited += 3
\* (waited is not read after the loop: the model keeps it only while the loop runs)
JobWait(j) ==
    /\ jobs[j].pc = "wait"
    /\ IF yamnet_detector_instance = "None" /\ jobs[j].waited < MAX_WAIT_SECONDS
       THEN Step(j, [jobs[j] EXCEPT !.waited = @ + POLL_SECONDS])
       ELSE Step(j, [jobs[j] EXCEPT !.pc = "call", !.waited = 0,
                                    !.expired = (yamnet_detector_instance = "None")])
    /\ UNCHANGED <<runVars, YAMNET_AVAILABLE, yamnet_detector_instance, template, loader,
                   next_interpreter>>

\* whether identify_with_yamnet takes the detector_instance keyword the job passes:
\* src/app/services/service.py does; src/service.py has no such parameter
TakesDetectorInstance(v) == v = "app"

\* acr_service.identify_with_yamnet(file_path, detector_instance=yamnet_detector_instance)
JobCall(j) ==
    /\ jobs[j].pc = "call"
    /\ IF TakesDetectorInstance(variant)
       THEN Step(j, [jobs[j] EXCEPT !.arg = yamnet_detector_instance, !.pc = "construct"])
       ELSE Step(j, [jobs[j] EXCEPT !.exception = "unexpected keyword argument detector_instance",
                                    !.pc = "except"])
    /\ UNCHANGED <<runVars, YAMNET_AVAILABLE, yamnet_detector_instance, template, loader,
                   next_interpreter>>

\* identify_with_yamnet: detector = detector_instance.clone() if given, else YAMNetDetector(...)
JobConstruct(j) ==
    /\ jobs[j].pc = "construct"
    /\ IF jobs[j].arg /= "None"
       THEN LET c == clone(template, model_present, next_interpreter)
            IN  IF c.raised
                THEN /\ Step(j, [jobs[j] EXCEPT !.detection_result = "None", !.pc = "save"])
                     /\ UNCHANGED next_interpreter
                ELSE /\ Step(j, [jobs[j] EXCEPT !.detector = c.detector, !.pc = "detect"])
                     /\ next_interpreter' = next_interpreter + 1
       ELSE /\ Step(j, [jobs[j] EXCEPT !.detector = NoDetector, !.pc = "detect"])
            /\ UNCHANGED next_interpreter
    /\ UNCHANGED <<runVars, YAMNET_AVAILABLE, yamnet_detector_instance, template, loader>>

\* get_music_segments: the recording is decoded, then detect_music_frames calls load_model
JobDetect(j) ==
    /\ jobs[j].pc = "detect"
    /\ \E decoded \in BOOLEAN :
         IF ~decoded
         THEN /\ Step(j, [jobs[j] EXCEPT !.detection_result = "None", !.pc = "save"])
              /\ UNCHANGED next_interpreter
         ELSE LET l == load_model(variant, jobs[j].detector, model_present, class_map_present,
                                  next_interpreter)
              IN  /\ next_interpreter' = IF l.detector.interpreter /= jobs[j].detector.interpreter
                                         THEN next_interpreter + 1 ELSE next_interpreter
                  /\ IF l.raised
                     THEN Step(j, [jobs[j] EXCEPT !.detector = l.detector,
                                                  !.detection_result = "None", !.pc = "save"])
                     ELSE Step(j, [jobs[j] EXCEPT !.detector = l.detector, !.pc = "infer"])
    /\ UNCHANGED <<runVars, YAMNET_AVAILABLE, yamnet_detector_instance, template, loader>>

\* the frame loop has run _run_inference on self.interpreter; the probes follow and the
\* entry point returns
JobInfer(j) ==
    /\ jobs[j].pc = "infer"
    /\ \E outcome \in RunOutcomes :
         Step(j, [jobs[j] EXCEPT !.detection_result = outcome, !.pc = "save"])
    /\ UNCHANGED <<runVars, YAMNET_AVAILABLE, yamnet_detector_instance, template, loader,
                   next_interpreter>>

\* else: detection_result = acr_service.identify_with_timeline(file_path)
JobTimeline(j) ==
    /\ jobs[j].pc = "timeline"
    /\ \E outcome \in RunOutcomes :
         /\ ~HasMergeSegments(variant) => outcome = "None"
         /\ Step(j, [jobs[j] EXCEPT !.detection_result = outcome, !.pc = "save"])
    /\ UNCHANGED <<runVars, YAMNET_AVAILABLE, yamnet_detector_instance, template, loader,
                   next_interpreter>>

\* result_file = ResultHandler.save_result(...); jobs[job_id]["status"] = "done"
JobSave(j) ==
    /\ jobs[j].pc = "save"
    /\ \E written \in BOOLEAN :
         IF written
         THEN Step(j, [jobs[j] EXCEPT !.status = "done", !.pc = "publish"])
         ELSE Step(j, [jobs[j] EXCEPT !.exception = "cannot write result file", !.pc = "except"])
    /\ UNCHANGED <<runVars, YAMNET_AVAILABLE, yamnet_detector_instance, template, loader,
                   next_interpreter>>

\* the dict an entry point returned, as the job table holds it; "None" in the table is
\* Python's None, before any dict is stored
ResultDict(outcome) ==
    IF outcome = "True" THEN "{copyrighted: True}"
    ELSE IF outcome = "False" THEN "{copyrighted: False}"
    ELSE "{copyrighted: None, error}"

\* jobs[job_id]["result"] = detection_result
JobPublish(j) ==
    /\ jobs[j].pc = "publish"
    /\ Step(j, Ended([jobs[j] EXCEPT !.result = ResultDict(jobs[j].detection_result)]))
    /\ UNCHANGED <<runVars, YAMNET_AVAILABLE, yamnet_detector_instance, template, loader,
                   next_interpreter>>

\* except Exception as e: jobs[job_id]["status"] = "error"
JobExcept(j) ==
    /\ jobs[j].pc = "except"
    /\ Step(j, [jobs[j] EXCEPT !.status = "error", !.pc = "except_error"])
    /\ UNCHANGED <<runVars, YAMNET_AVAILABLE, yamnet_detector_instance, template, loader,
                   next_interpreter>>

\* jobs[job_id]["error"] = str(e)
JobExceptError(j) ==
    /\ jobs[j].pc = "except_error"
    /\ Step(j, Ended([jobs[j] EXCEPT !.error = jobs[j].exception]))
    /\ UNCHANGED <<runVars, YAMNET_AVAILABLE, yamnet_detector_instance, template, loader,
                   next_interpreter>>

\* GET /api/detect/status/{job_id}: 404 for an unknown id, else the job's entry as it is at
\* the moment of the poll; the handler changes nothing
get_job_status(j) ==
    [found |-> jobs[j].status /= "absent", status |-> jobs[j].status,
     result |-> jobs[j].result, error |-> jobs[j].error]

\* ------------------------------------------------------------ methods called on their own
NoUnit == [fn |-> "none"]
NoOut == [calls |-> 0, value |-> <<>>]

\* frame i of a list offered to the merger: the detector's own frames (hop 0.4875 s,
\* length 0.975 s), one-second frames end to end, or frames of mixed length
SlotFrame(grid, i) ==
    IF grid = "frame" THEN [start |-> i * FRAME_HOP, end |-> i * FRAME_HOP + FRAME_DURATION]
    ELSE IF grid = "second" THEN [start |-> i * TICKS_PER_SEC, end |-> (i + 1) * TICKS_PER_SEC]
    ELSE [start |-> i * TICKS_PER_SEC,
          end |-> (i + (IF i % 3 = 0 THEN 4 ELSE 1)) * TICKS_PER_SEC]

\* the frames at the chosen positions, in time order
RECURSIVE FramesAt(_, _, _)
FramesAt(grid, slots, i) ==
    IF i >= NumSlots THEN <<>>
    ELSE (IF i \in slots THEN <<SlotFrame(grid, i)>> ELSE <<>>) \o FramesAt(grid, slots, i + 1)

MergeCalls ==
    {[fn |-> "merge", music_frames |-> FramesAt(g, sl, 0), min_segment_duration |-> d] :
        g \in {"frame", "second", "mixed"}, sl \in SUBSET (0..(NumSlots - 1)),
        d \in {MERGE_GAP, MIN_SEGMENT_DURATION}}

\* segments = detector._merge_frames_to_segments(music_frames)
ApplyMerge ==
    /\ unit.fn = "merge"
    /\ unit_out.calls = 0
    /\ unit_out' = [calls |-> 1,
                    value |-> _merge_frames_to_segments(unit.music_frames, MERGE_GAP,
                                                        unit.min_segment_duration)]
    /\ UNCHANGED <<progVars, unit>>

\* the merger is called again on the intervals it returned
Remerge ==
    /\ unit.fn = "merge"
    /\ unit_out.calls = 1
    /\ unit_out' = [calls |-> 2, value |-> unit_out.value,
                    again |-> _merge_frames_to_segments(unit_out.value, MERGE_GAP,
                                                        unit.min_segment_duration)]
    /\ UNCHANGED <<progVars, unit>>

\* coarse segments as the merger returns them on the detector's frames, and one too
\* short to be analysed
BoundarySegments ==
    {[start |-> 0, end |-> 26 * FRAME_HOP], [start |-> FRAME_HOP, end |-> 27 * FRAME_HOP],
     [start |-> 2 * FRAME_HOP, end |-> 28 * FRAME_HOP], [start |-> 0, end |-> 12 * FRAME_HOP],
     [start |-> 10 * FRAME_HOP, end |-> 13 * FRAME_HOP]}
\* hop indices where the change signal may reach the threshold
HopPool == {0, 1, 215, 216, 217, 431, 432, 544, 545, 600}
BoundaryCalls ==
    {[fn |-> "boundaries", seg_start |-> g.start, seg_end |-> g.end, cands |-> c] :
        g \in BoundarySegments, c \in SUBSET HopPool}

\* boundaries = detector.find_boundaries_in_segment(audio_path, seg_start, seg_end)
ApplyBoundaries ==
    /\ unit.fn = "boundaries"
    /\ unit_out.calls = 0
    /\ unit_out' = [calls |-> 1,
                    value |-> find_boundaries_in_segment(unit.seg_start, unit.seg_end, unit.cands)]
    /\ UNCHANGED <<progVars, unit>>

\* segments to split, and boundary lists of up to three values taken below, at, inside,
\* at the end of and beyond the segment, in any order and with repeats
SplitSegments ==
    {[start |-> 0, end |-> 10 * TICKS_PER_SEC], [start |-> FRAME_HOP, end |-> 27 * FRAME_HOP],
     [start |-> 3 * TICKS_PER_SEC, end |-> 6 * TICKS_PER_SEC]}
BoundaryPool(g) ==
    {g.start - TICKS_PER_SEC, g.start, g.start + 25 * CENTI, g.start + MIN_BOUNDARY_GAP,
     g.end, g.end + TICKS_PER_SEC}
BoundaryLists(g) ==
    {<<>>} \cup {<<a>> : a \in BoundaryPool(g)}
           \cup {<<a, b>> : a \in BoundaryPool(g), b \in BoundaryPool(g)}
           \cup {<<a, b, c>> : a \in BoundaryPool(g), b \in BoundaryPool(g), c \in BoundaryPool(g)}
SplitCalls ==
    UNION {{[fn |-> "split", seg_start |-> g.start, seg_end |-> g.end, boundaries |-> bl] :
                bl \in BoundaryLists(g)} : g \in SplitSegments}

\* for start, end in self.split_segment_at_boundaries(seg_start, seg_end, boundaries):
\*     final.append({"start": round(start, 2), "end": round(end, 2)})
ApplySplit ==
    /\ unit.fn = "split"
    /\ unit_out.calls = 0
    /\ LET fine == split_segment_at_boundaries(unit.seg_start, unit.seg_end, unit.boundaries)
       IN  unit_out' = [calls |-> 1, value |-> fine,
                        final |-> [i \in 1..Len(fine) |->
                                     [start |-> Round2(fine[i].start), end |-> Round2(fine[i].end)]]]
    /\ UNCHANGED <<progVars, unit>>

\* what the classifier may return for one window: the scores at the music class ids
\* (none when music_class_ids is empty) and whether the top class is a speech class
FrameScores ==
    {[music |-> m, speech |-> sp] :
        m \in {{}, {4}, {5}, {10}, {4, 5}, {4, 10}}, sp \in BOOLEAN}
\* waveform lengths around the points where one more window fits
DetectLengths ==
    {0, TFLITE_INPUT_LENGTH - 1, TFLITE_INPUT_LENGTH, TFLITE_INPUT_LENGTH + HopSamples - 1,
     TFLITE_INPUT_LENGTH + HopSamples, TFLITE_INPUT_LENGTH + 2 * HopSamples,
     TFLITE_INPUT_LENGTH + 2 * HopSamples + 1}
DetectCalls ==
    {[fn |-> "detect", total_samples |-> n, scores |-> <<a, b, c>>] :
        n \in DetectLengths, a \in FrameScores, b \in FrameScores, c \in FrameScores}

\* music_frames = self.detect_music_frames(waveform): (start, start + FRAME_DURATION, music_score)
ApplyDetect ==
    /\ unit.fn = "detect"
    /\ unit_out.calls = 0
    /\ LET frames == detect_music_frames(unit.total_samples, ActiveSet(unit.scores))
       IN  unit_out' = [calls |-> 1,
                        value |-> [k \in 1..Len(frames) |->
                                     [start |-> frames[k].start, end |-> frames[k].end,
                                      music_score |->
                                        music_score(unit.scores[(frames[k].start \div FRAME_HOP) + 1])]]]
    /\ UNCHANGED <<progVars, unit>>

\* fine segments handed to the probe loop: lengths around the tail floor, the probe
\* interval and the probe window
ProbeStarts == {0, 49 * CENTI, 1234 * CENTI}
ProbeLengths ==
    {CENTI, TAIL_FLOOR - CENTI, TAIL_FLOOR, TAIL_FLOOR + CENTI, PROBE_INTERVAL,
     PROBE_INTERVAL + TAIL_FLOOR, PROBE_INTERVAL + TAIL_FLOOR + CENTI, PROBE_WINDOW,
     PROBE_WINDOW + TAIL_FLOOR, 2 * PROBE_INTERVAL + TAIL_FLOOR,
     2 * PROBE_INTERVAL + TAIL_FLOOR + CENTI, 2194 * CENTI}
ProbeCalls ==
    {[fn |-> "probe", start |-> st, end |-> st + ln] : st \in ProbeStarts, ln \in ProbeLengths}

\* for probe_start in self._get_probe_points(start, end, probe_interval=8.0):
\*     probe_end = min(probe_start + 12.0, end); the windows handed to _extract_chunk
ApplyProbes ==
    /\ unit.fn = "probe"
    /\ unit_out.calls = 0
    /\ LET points == _get_probe_points(unit.start, unit.end, PROBE_INTERVAL)
       IN  unit_out' = [calls |-> 1,
                        value |-> [k \in 1..Len(points) |->
                                     [start |-> points[k],
                                      end |-> Min(points[k] + PROBE_WINDOW, unit.end)]]]
    /\ UNCHANGED <<progVars, unit>>

\* one YAMNetDetector() used for several calls while the files stay as they are
LoadCalls ==
    {[fn |-> "load", model_present |-> mp, class_map_present |-> cp] :
        mp \in BOOLEAN, cp \in BOOLEAN}
\* the object's interpreter and taxonomy before the next call: __init__ leaves both empty
UnitDetector == IF unit_out.calls = 0 THEN NoDetector ELSE unit_out.detector

\* detector.load_model()
CallLoadModel ==
    /\ unit.fn = "load"
    /\ unit_out.calls < MaxCalls
    /\ LET r == load_model(variant, UnitDetector, unit.model_present, unit.class_map_present,
                           RunInterpreter)
       IN  unit_out' = [calls |-> unit_out.calls + 1, value |-> <<>>, detector |-> r.detector,
                        raised |-> r.raised, detected |-> FALSE]
    /\ UNCHANGED <<progVars, unit>>

\* detector.detect_music_frames(waveform) on a one-window waveform: self.load_model(), then
\* the frame loop; with no class names music_class_ids is empty and the top class is "unknown"
CallDetectFrames ==
    /\ unit.fn = "load"
    /\ unit_out.calls < MaxCalls
    /\ LET r == load_model(variant, UnitDetector, unit.model_present, unit.class_map_present,
                           RunInterpreter)
           scores == <<[music |-> IF r.detector.class_names THEN {CONFIDENCE_THRESHOLD} ELSE {},
                        speech |-> FALSE]>>
       IN  unit_out' = [calls |-> unit_out.calls + 1,
                        value |-> IF r.raised THEN <<>>
                                  ELSE detect_music_frames(TFLITE_INPUT_LENGTH, ActiveSet(scores)),
                        detector |-> r.detector,
                        raised |-> r.raised,
                        detected |-> ~r.raised]
    /\ UNCHANGED <<progVars, unit>>

\* hit lists handed to the merge pass on its own: equal windows as the fallback path
\* records them, and hits of other lengths, in any order
HitSpans ==
    {<<0, 10>>, <<8, 18>>, <<16, 26>>, <<13, 20>>, <<14, 20>>, <<0, 20>>, <<5, 10>>}
HitPool ==
    {[start |-> sp[1] * TICKS_PER_SEC, end |-> sp[2] * TICKS_PER_SEC,
      duration |-> (sp[2] - sp[1]) * TICKS_PER_SEC, acrid |-> "None"] : sp \in HitSpans}
HitLists ==
    {<<>>} \cup {<<a>> : a \in HitPool} \cup {<<a, b>> : a \in HitPool, b \in HitPool}
        \cup {<<a, b, c>> : a \in HitPool, b \in HitPool, c \in HitPool}
MergeHitCalls == {[fn |-> "mergehits", segments |-> l] : l \in HitLists}

\* self._merge_segments(segments) in src/service.py; the class under src/app has
\* merge_overlapping_segments(segments) in its place
ApplyMergeHits ==
    /\ unit.fn = "mergehits"
    /\ unit_out.calls = 0
    /\ unit_out' = [calls |-> 1,
                    value |-> IF HasMergeSegments(variant)
                              THEN _merge_segments(unit.segments, GAP_THRESHOLD)
                              ELSE merge_overlapping_segments(unit.segments)]
    /\ UNCHANGED <<progVars, unit>>

\* classifier-path runs that differ in the chroma_threshold they are given; the change
\* signal of the one coarse segment has values around 0.3 and 0.35 at three hops
RefineHops == {216, 432, 540}
ChangeLevels == {10, 30, 32, 35, 50}
SuppliedThresholds == {20, CHROMA_THRESHOLD, 35}
RefineCalls ==
    {[fn |-> "refine", chroma_threshold |-> t, seg_start |-> FRAME_HOP, seg_end |-> 27 * FRAME_HOP,
      combined |-> c] : t \in SuppliedThresholds, c \in [RefineHops -> ChangeLevels]}

\* identify_with_yamnet(file, chroma_threshold = t): detector.get_music_segments(file) and,
\* inside it, find_boundaries_in_segment for the coarse segment
ApplyRefine ==
    /\ unit.fn = "refine"
    /\ unit_out.calls = 0
    /\ LET cands == Candidates(unit.combined, RunChromaThreshold(unit.chroma_threshold))
       IN  unit_out' = [calls |-> 1,
                        value |-> find_boundaries_in_segment(unit.seg_start, unit.seg_end, cands),
                        cands |-> cands]
    /\ UNCHANGED <<progVars, unit>>

\* ------------------------------------------------------------ specification
\* a single call of an entry point: no server, no jobs
InitNoUnit ==
    /\ unit = NoUnit
    /\ unit_out = NoOut

InitNoJobs ==
    /\ YAMNET_AVAILABLE = FALSE
    /\ yamnet_detector_instance = "None"
    /\ template = NoDetector
    /\ loader = "idle"
    /\ jobs = [j \in Jobs |-> NoJob]
    /\ next_interpreter = 1

InitCommon ==
    /\ variant \in Variants
    /\ detector = NoDetector
    /\ candidate_segments = <<>>
    /\ seg_i = 0
    /\ probe_points = <<>>
    /\ probe = NoProbe
    /\ chunks = 0
    /\ result = NotMatched
    /\ confirmed_segments = <<>>
    /\ current = 0
    /\ segments = <<>>
    /\ run_result = NoResult
    /\ raised = FALSE
    /\ failure = ""
    /\ queries = 0
    /\ log = <<>>
    /\ invalid_seen = FALSE

\* the server: the entry points are reached through the jobs only
InitJobs ==
    /\ InitCommon
    /\ entry = "jobs"
    /\ pc = "idle"
    /\ model_present \in BOOLEAN
    /\ class_map_present \in BOOLEAN
    /\ wave = NoWave
    /\ detector_instance = "None"
    /\ total_duration = 0
    /\ YAMNET_AVAILABLE \in BOOLEAN
    /\ yamnet_detector_instance = "None"
    /\ template = NoDetector
    /\ loader = "idle"
    /\ jobs = [j \in Jobs |-> NoJob]
    /\ next_interpreter = 1
    /\ InitNoUnit

InitYamnet ==
    /\ entry = "yamnet"
    /\ pc = "start"
    /\ model_present \in BOOLEAN
    /\ class_map_present \in BOOLEAN
    /\ wave \in Waves
    /\ detector_instance \in {"None", "template"}
    /\ detector_instance = "template" => variant = "app"
    /\ total_duration = 0

InitTimeline ==
    /\ entry = "timeline"
    /\ pc = "t_start"
    /\ total_duration \in Durations
    /\ model_present = FALSE
    /\ class_map_present = FALSE
    /\ wave = NoWave
    /\ detector_instance = "None"

InitIdentify ==
    /\ entry = "identify"
    /\ pc = "i_start"
    /\ total_duration = 0
    /\ model_present = FALSE
    /\ class_map_present = FALSE
    /\ wave = NoWave
    /\ detector_instance = "None"

Init == InitCommon /\ InitNoJobs /\ InitNoUnit /\ (InitYamnet \/ InitTimeline \/ InitIdentify)

Next ==
    \/ Construct
    \/ GetMusicSegments
    \/ BeginSegment
    \/ ExtractChunk
    \/ Identify
    \/ Stitch
    \/ Return
    \/ ProbeDuration
    \/ ExtractWindow
    \/ IdentifyWindow
    \/ TimelineReturn
    \/ IdentifyEntry

Spec == Init /\ [][Next]_vars

\* a call that has started is run to its end: the entry points are sequential code with
\* no wait in it, every external call returns (requests.post has timeout = 30)
SpecLive == Init /\ [][Next]_vars /\ WF_vars(Next)

NextJobs ==
    \/ preload_yamnet
    \/ LoadTemplate
    \/ PublishTemplate
    \/ \E j \in Jobs : detect_from_file(j)
    \/ \E j \in Jobs : JobBegin(j)
    \/ \E j \in Jobs : JobWait(j)
    \/ \E j \in Jobs : JobCall(j)
    \/ \E j \in Jobs : JobConstruct(j)
    \/ \E j \in Jobs : JobDetect(j)
    \/ \E j \in Jobs : JobInfer(j)
    \/ \E j \in Jobs : JobTimeline(j)
    \/ \E j \in Jobs : JobSave(j)
    \/ \E j \in Jobs : JobPublish(j)
    \/ \E j \in Jobs : JobExcept(j)
    \/ \E j \in Jobs : JobExceptError(j)

SpecJobs == InitJobs /\ [][NextJobs]_vars

UnitCalls == MergeCalls \cup BoundaryCalls \cup SplitCalls \cup DetectCalls \cup ProbeCalls \cup LoadCalls \cup MergeHitCalls \cup RefineCalls

\* one method of the detector or the service, called on its own with arguments it can get
InitUnit ==
    /\ InitCommon
    /\ InitNoJobs
    /\ entry = "unit"
    /\ pc = "idle"
    /\ model_present = FALSE
    /\ class_map_present = FALSE
    /\ wave = NoWave
    /\ detector_instance = "None"
    /\ total_duration = 0
    /\ unit \in UnitCalls
    /\ variant = "root" \/ unit.fn \in {"load", "mergehits", "refine"}
    /\ unit_out = NoOut

NextUnit ==
    \/ ApplyMerge
    \/ Remerge
    \/ ApplyBoundaries
    \/ ApplySplit
    \/ ApplyDetect
    \/ ApplyProbes
    \/ CallLoadModel
    \/ CallDetectFrames
    \/ ApplyMergeHits
    \/ ApplyRefine

SpecUnit == InitUnit /\ [][NextUnit]_vars

\* ------------------------------------------------------------ claims: the stitcher
\* the matched probes of the run, in order
MatchedLog == SelectSeq(log, LAMBDA e : e.verdict /= "miss")

\* a matched probe opens a new segment unless it carries the track id of the matched
\* probe before it
GroupStarts(m) ==
    {i \in 1..Len(m) : i = 1 \/ m[i].verdict = NoId \/ m[i].verdict /= m[i - 1].verdict}
GroupEnd(m, i) ==
    CHOOSE j \in i..Len(m) :
        /\ \A k \in (i + 1)..j : k \notin GroupStarts(m)
        /\ j = Len(m) \/ (j + 1) \in GroupStarts(m)
NthStart(m, k) ==
    CHOOSE i \in GroupStarts(m) : Cardinality({j \in GroupStarts(m) : j < i}) = k - 1
ExpectedSegments(m) ==
    [k \in 1..Cardinality(GroupStarts(m)) |->
        LET i == NthStart(m, k)
        IN  [start |-> m[i].start, end |-> m[GroupEnd(m, i)].end, acrid |-> m[i].verdict]]
Shape(confirmed) ==
    [k \in 1..Len(confirmed) |->
        [start |-> confirmed[k].start, end |-> confirmed[k].end, acrid |-> confirmed[k].acrid]]

\* C1: a matched probe with the track id of the latest confirmed segment moves that
\* segment's end to the probe's end and appends nothing, every other matched probe
\* appends one segment (probe start, probe end, track): the list is one segment per
\* maximal run of matched probes with one track id; verdicts A, A, B give two segments,
\* the first spanning both A probes, and verdicts A, B, A give three.
C1_StitchRule ==
    LET m == MatchedLog
    IN  /\ Shape(confirmed_segments) = ExpectedSegments(m)
        /\ (/\ Len(m) = 3
            /\ m[1].verdict \in TrackIds
            /\ m[2].verdict = m[1].verdict
            /\ m[3].verdict \in TrackIds \ {m[1].verdict})
           => Shape(confirmed_segments) =
                <<[start |-> m[1].start, end |-> m[2].end, acrid |-> m[1].verdict],
                  [start |-> m[3].start, end |-> m[3].end, acrid |-> m[3].verdict]>>
        /\ (/\ Len(m) = 3
            /\ m[1].verdict \in TrackIds
            /\ m[2].verdict \in TrackIds \ {m[1].verdict}
            /\ m[3].verdict = m[1].verdict)
           => Len(confirmed_segments) = 3

\* probes (0,12,A), (8,20,A), (16,21.94,B) answered: two segments, (0,20,A) and the B probe
C1_Witness ==
    /\ pc = "probe"
    /\ Len(log) = 3
    /\ log[1] = [start |-> 0, end |-> 120000, verdict |-> "A"]
    /\ log[2] = [start |-> 80000, end |-> 200000, verdict |-> "A"]
    /\ log[3].verdict = "B"
    /\ Len(confirmed_segments) = 2
    /\ confirmed_segments[1].end = 200000

\* two matched probes of one track id with nothing but misses between them
AcrossMiss(i, k) ==
    /\ i + 1 < k
    /\ log[i].verdict \in TrackIds
    /\ log[k].verdict = log[i].verdict
    /\ \A j \in (i + 1)..(k - 1) : log[j].verdict = "miss"
Covers(seg, i, k) == seg.start <= log[i].start /\ log[k].end <= seg.end

\* C2 as claimed: two matched probes of one track id with a miss between them are held by
\* two separate confirmed segments.
C2_SeparateAcrossMiss ==
    \A i \in 1..Len(log) : \A k \in 1..Len(log) :
        AcrossMiss(i, k) =>
            ~ \E n \in 1..Len(confirmed_segments) : Covers(confirmed_segments[n], i, k)

\* C2 as amended: two matched probes of one track id with only misses between them are
\* held by one confirmed segment of that track, stretched from the first probe's start
\* over the miss to the later probe's end.
C2_BridgesMiss ==
    \A i \in 1..Len(log) : \A k \in 1..Len(log) :
        AcrossMiss(i, k) =>
            \E n \in 1..Len(confirmed_segments) :
                /\ confirmed_segments[n].acrid = log[i].verdict
                /\ Covers(confirmed_segments[n], i, k)

\* verdicts A, miss, A: one confirmed segment
C2_Witness ==
    /\ pc = "probe"
    /\ Len(log) = 3
    /\ AcrossMiss(1, 3)
    /\ Len(confirmed_segments) = 1
    /\ confirmed_segments[1].start = log[1].start
    /\ confirmed_segments[1].end = log[3].end

\* C3 as claimed: the confirmed segments are ordered by increasing start and do not
\* overlap: each one ends no later than the next one starts.
C3_OrderedNonOverlapping ==
    \A n \in 1..(Len(confirmed_segments) - 1) :
        /\ confirmed_segments[n].start < confirmed_segments[n + 1].start
        /\ confirmed_segments[n].end <= confirmed_segments[n + 1].start

\* ------------------------------------------------------------ claims: run results
\* the failures of the external tools the fallback run shells out to
ToolFailures == {"could not convert string to float", "ffmpeg not found"}

\* C4 as claimed: a fallback run that read the duration, cut and queried every window
\* without a tool failure and got no hit returns copyrighted = false and no segments.
C4_NoHitsNotCopyrighted ==
    (/\ entry = "timeline"
     /\ pc = "done"
     /\ failure \notin ToolFailures
     /\ current >= total_duration
     /\ segments = <<>>)
    => run_result = [copyrighted |-> "False", segments |-> <<>>, error |-> ""]

\* C5: the coarse merger maps no frames to no segments; a classifier-path run that finds
\* no active frame returns copyrighted = false, segments = [] and has sent nothing to the
\* oracle; every classifier-path run that returns without an error reports
\* copyrighted = (the confirmed list is not empty), with that list as its segments.
C5_EmptyAndCount ==
    /\ _merge_frames_to_segments(<<>>, MERGE_GAP, MIN_SEGMENT_DURATION) = <<>>
    /\ (/\ entry = "yamnet"
        /\ pc = "done"
        /\ failure = ""
        /\ detect_music_frames(wave.total_samples, wave.active) = <<>>)
       => (/\ run_result = [copyrighted |-> "False", segments |-> <<>>, error |-> ""]
           /\ queries = 0)
    /\ (entry = "yamnet" /\ pc = "done" /\ failure = "")
       => (/\ run_result.copyrighted = (IF Len(confirmed_segments) > 0 THEN "True" ELSE "False")
           /\ run_result.segments = confirmed_segments
           /\ run_result.error = "")

\* a full-length recording with no active frame, analysed and returned
C5_Witness ==
    /\ entry = "yamnet"
    /\ pc = "done"
    /\ failure = ""
    /\ wave.total_samples = FullSamples
    /\ wave.active = {}
    /\ detector.class_names
    /\ run_result.copyrighted = "False"

\* C8: a probe that is not matched (no match, or any failure of the request) leaves the
\* confirmed list as it was and the run goes on to the next probe; the run then returns
\* a copyrighted/segments result.
C8_MissChangesNothing ==
    /\ [][(pc = "stitch" /\ result.copyrighted /= "True")
          => (/\ confirmed_segments' = confirmed_segments
              /\ pc' = "probe"
              /\ run_result' = run_result
              /\ raised' = FALSE)]_vars
    /\ [][(pc = "seg" /\ pc' = "done")
          => (/\ run_result'.copyrighted \in {"True", "False"}
              /\ run_result'.segments = confirmed_segments)]_vars

\* a run that returned its segments although its last probe failed
C8_Witness ==
    /\ entry = "yamnet"
    /\ pc = "done"
    /\ result.copyrighted = "None"
    /\ Len(log) >= 2
    /\ log[Len(log)].verdict = "miss"
    /\ run_result.copyrighted = "True"
    /\ run_result.segments = confirmed_segments

\* C9 as claimed: a classifier-path run in which some probe's response had an unexpected
\* shape returns copyrighted = null with an error string.
C9_InvalidSurfaced ==
    (entry = "yamnet" /\ pc = "done" /\ invalid_seen)
    => (run_result.copyrighted = "None" /\ run_result.error /= "")

\* C10: no exception leaves an entry point; a finished call has returned a result, and
\* after a run-level failure that result is copyrighted = null with the error.
C10_NeverRaises ==
    /\ ~raised
    /\ pc = "done" => run_result.copyrighted \in {"True", "False", "None"}
    /\ (pc = "done" /\ failure /= "")
       => (run_result.copyrighted = "None" /\ run_result.error = failure)

\* ffmpeg goes missing in the middle of a run that had already confirmed a segment
C10_Witness ==
    /\ entry = "yamnet"
    /\ pc = "done"
    /\ failure = "ffmpeg not found"
    /\ Len(confirmed_segments) > 0
    /\ run_result.copyrighted = "None"

\* ------------------------------------------------------------ claims: the job layer
\* C6: a job that runs inference does so on an interpreter of its own: one allocated for
\* it by clone() or by its own detector's load_model, never the template's and never one
\* that another job's detector holds.
C6_OwnInterpreter ==
    \A j \in Jobs :
        jobs[j].pc = "infer" =>
            /\ jobs[j].detector.interpreter /= 0
            /\ jobs[j].detector.interpreter /= template.interpreter
            /\ \A k \in Jobs \ {j} :
                 jobs[k].detector.interpreter /= jobs[j].detector.interpreter

\* two jobs in the frame loop at once, one on a clone of the published template and one
\* on a detector it built itself
C6_Witness ==
    /\ yamnet_detector_instance = "template"
    /\ \E j \in Jobs : \E k \in Jobs :
         /\ jobs[j].pc = "infer"
         /\ jobs[k].pc = "infer"
         /\ jobs[j].arg = "template"
         /\ jobs[k].arg = "None"

\* C7 as claimed: a job whose wait ended with the template still not ready does not go on
\* to detection: it takes the failure path and ends with status "error".
C7_ExpiredJobFails ==
    \A j \in Jobs :
        jobs[j].expired =>
            /\ jobs[j].pc \in {"call", "except", "except_error", "end"}
            /\ jobs[j].pc = "end" => jobs[j].status = "error"

\* ------------------------------------------------------------ claims: the coarse merger
\* C11: merging is idempotent: the merger called again on the intervals it returned,
\* with the same merge gap and minimum duration, returns those intervals unchanged.
C11_MergeIdempotent ==
    (unit.fn = "merge" /\ unit_out.calls = 2) => unit_out.again = unit_out.value

\* a list in which frames were joined and a short interval dropped, merged twice, with
\* two intervals left
C11_Witness ==
    /\ unit.fn = "merge"
    /\ unit_out.calls = 2
    /\ Len(unit_out.value) = 2
    /\ Len(unit.music_frames) > 4
    /\ Len(MergeKeepsShort(unit.music_frames, MERGE_GAP, unit.min_segment_duration)) = 3

\* C12: every interval the merger returns is at least min_segment_duration long, and the
\* intervals are in increasing order of start with each one ending before the next starts.
C12_CoarseWellFormed ==
    (unit.fn = "merge" /\ unit_out.calls >= 1) =>
        /\ \A k \in 1..Len(unit_out.value) :
             unit_out.value[k].end - unit_out.value[k].start >= unit.min_segment_duration
        /\ \A k \in 1..(Len(unit_out.value) - 1) :
             /\ unit_out.value[k].start < unit_out.value[k + 1].start
             /\ unit_out.value[k].end < unit_out.value[k + 1].start

\* the detector's own frames, with an isolated last frame that is too short to be kept
\* on its own
C12_Witness ==
    /\ unit.fn = "merge"
    /\ unit_out.calls = 1
    /\ unit.music_frames = FramesAt("frame", {0, 1, 2, 3, 4, 11}, 0)
    /\ unit.min_segment_duration = MERGE_GAP
    /\ Len(MergeKeepsShort(unit.music_frames, MERGE_GAP, MERGE_GAP)) = 2
    /\ Len(unit_out.value) = 1

\* the latest end among the first k frames
RECURSIVE MaxEndUpTo(_, _)
MaxEndUpTo(frames, k) ==
    IF k = 1 THEN frames[1].end ELSE Max(frames[k].end, MaxEndUpTo(frames, k - 1))
\* the frames that do not join: the first one, and each one that starts more than
\* merge_gap after everything before it has ended
MergeBreaks(frames, merge_gap) ==
    {k \in 1..Len(frames) : k = 1 \/ frames[k].start - MaxEndUpTo(frames, k - 1) > merge_gap}
NthBreak(frames, merge_gap, n) ==
    CHOOSE k \in MergeBreaks(frames, merge_gap) :
        Cardinality({j \in MergeBreaks(frames, merge_gap) : j < k}) = n - 1
\* one interval per break: from that frame's start to the latest end before the next break
ExpectedIntervals(frames, merge_gap) ==
    [n \in 1..Cardinality(MergeBreaks(frames, merge_gap)) |->
        LET b == NthBreak(frames, merge_gap, n)
            later == {k \in MergeBreaks(frames, merge_gap) : k > b}
            last == IF later = {} THEN Len(frames)
                    ELSE (CHOOSE k \in later : \A j \in later : k <= j) - 1
        IN  [start |-> frames[b].start, end |-> MaxEndUpTo(frames, last)]]

\* C13: a frame joins the interval in progress exactly when it starts at most merge_gap
\* after that interval's end, which then becomes the later of the two ends; otherwise it
\* closes the interval and opens a new one. One-second frames covering [0, 5) and
\* [7, 12) with merge_gap = 2.0 and min_segment_duration = 2.0 give the single interval
\* [0, 12).
C13_MergeRule ==
    (unit.fn = "merge" /\ unit_out.calls >= 1) =>
        /\ unit_out.value =
             SelectSeq(ExpectedIntervals(unit.music_frames, MERGE_GAP),
                       LAMBDA g : g.end - g.start >= unit.min_segment_duration)
        /\ (/\ unit.music_frames = FramesAt("second", (0..4) \cup (7..11), 0)
            /\ unit.min_segment_duration = MERGE_GAP)
           => unit_out.value = <<[start |-> 0, end |-> 12 * TICKS_PER_SEC]>>

\* the frames covering [0, 5) and [7, 12), merged
C13_Witness ==
    /\ unit.fn = "merge"
    /\ unit_out.calls = 1
    /\ unit.music_frames = FramesAt("second", (0..4) \cup (7..11), 0)
    /\ unit.min_segment_duration = MERGE_GAP
    /\ Len(unit_out.value) = 1

\* ------------------------------------------------------------ claims: the boundary refiner
\* C14: any two boundaries find_boundaries_in_segment returns for one coarse segment are
\* at least 5.0 s apart, as stored, that is after rounding to two decimals.
C14_BoundariesApart ==
    (unit.fn = "boundaries" /\ unit_out.calls = 1) =>
        \A a \in 1..Len(unit_out.value) : \A b \in 1..Len(unit_out.value) :
            a < b => unit_out.value[b] - unit_out.value[a] >= MIN_BOUNDARY_GAP

\* candidates at hops 0, 215, 216 and 432: the one 4.99 s after a boundary is passed
\* over, the ones 5.02 s after a boundary are taken
C14_Witness ==
    /\ unit.fn = "boundaries"
    /\ unit_out.calls = 1
    /\ unit.cands = {0, 215, 216, 432}
    /\ unit.seg_start = FRAME_HOP
    /\ Len(unit_out.value) = 3

\* C19 as claimed: every boundary find_boundaries_in_segment returns for the coarse
\* segment (s, e) lies strictly inside it.
C19_BoundariesInside ==
    (unit.fn = "boundaries" /\ unit_out.calls = 1) =>
        \A a \in 1..Len(unit_out.value) :
            unit.seg_start < unit_out.value[a] /\ unit_out.value[a] < unit.seg_end

\* the boundaries of the call that lie inside the open interval (seg_start, seg_end)
ValidBoundaries ==
    {unit.boundaries[i] : i \in {j \in 1..Len(unit.boundaries) :
                                   unit.seg_start < unit.boundaries[j]
                                   /\ unit.boundaries[j] < unit.seg_end}}
\* a list of segments that runs from s to e, each one starting where the one before ended
Chained(segs, s, e) ==
    /\ Len(segs) >= 1
    /\ segs[1].start = s
    /\ segs[Len(segs)].end = e
    /\ \A k \in 1..Len(segs) : segs[k].start <= segs[k].end
    /\ \A k \in 1..(Len(segs) - 1) :
         segs[k].end = segs[k + 1].start /\ segs[k].start <= segs[k + 1].start

\* C15: for s < e and any boundary list, split_segment_at_boundaries returns segments
\* that run from s to e in order, each ending where the next starts (no gap, no
\* overlap), cut exactly at the boundaries strictly inside (s, e); with no such boundary
\* the result is the single segment (s, e). A segment is empty only between two copies
\* of a repeated boundary. The rounded segments get_music_segments stores are chained
\* in the same way.
C15_SplitPartitions ==
    (unit.fn = "split" /\ unit_out.calls = 1) =>
        /\ Chained(unit_out.value, unit.seg_start, unit.seg_end)
        /\ {unit_out.value[k].start : k \in 2..Len(unit_out.value)} = ValidBoundaries
        /\ ValidBoundaries = {}
             => unit_out.value = <<[start |-> unit.seg_start, end |-> unit.seg_end]>>
        /\ Len(unit_out.value) = 1 + Cardinality({j \in 1..Len(unit.boundaries) :
                                        unit.boundaries[j] \in ValidBoundaries})
        /\ \A k \in 1..Len(unit_out.value) :
             unit_out.value[k].start = unit_out.value[k].end
               => \E i \in 1..Len(unit.boundaries) : \E j \in 1..Len(unit.boundaries) :
                    i /= j /\ unit.boundaries[i] = unit_out.value[k].start
                           /\ unit.boundaries[j] = unit_out.value[k].start
        /\ Chained(unit_out.final, Round2(unit.seg_start), Round2(unit.seg_end))

\* an unsorted list with one boundary beyond the segment: two cuts, three segments
C15_Witness ==
    /\ unit.fn = "split"
    /\ unit_out.calls = 1
    /\ unit.seg_start = FRAME_HOP
    /\ unit.boundaries = <<unit.seg_start + MIN_BOUNDARY_GAP, unit.seg_end + TICKS_PER_SEC,
                           unit.seg_start + 25 * CENTI>>
    /\ Len(unit_out.value) = 3
    /\ unit_out.value[2].end = unit.seg_start + MIN_BOUNDARY_GAP

\* ------------------------------------------------------------ claims: the frame detector
\* the frames of the call that must be reported: the window fits the waveform, and the
\* best music score reaches 0.1, or reaches 0.05 under a top class of speech
FittingActive ==
    {i \in 0..(Len(unit.scores) - 1) :
        /\ i * HopSamples + TFLITE_INPUT_LENGTH <= unit.total_samples
        /\ LET best == IF unit.scores[i + 1].music = {} THEN 0
                       ELSE CHOOSE x \in unit.scores[i + 1].music :
                                \A y \in unit.scores[i + 1].music : y <= x
           IN  best >= 10 \/ (unit.scores[i + 1].speech /\ best >= 5)}

\* C16: detect_music_frames returns exactly the frames whose window fits the waveform
\* and whose scores satisfy the activation predicate, each as (i * 0.4875,
\* i * 0.4875 + 0.975, music score), in strictly increasing order of start; the music
\* score is 0 when there is no music class.
C16_ExactlyActiveFrames ==
    (unit.fn = "detect" /\ unit_out.calls = 1) =>
        /\ {unit_out.value[k].start : k \in 1..Len(unit_out.value)}
             = {i * FRAME_HOP : i \in FittingActive}
        /\ Len(unit_out.value) = Cardinality(FittingActive)
        /\ \A k \in 1..Len(unit_out.value) :
             /\ unit_out.value[k].end = unit_out.value[k].start + FRAME_DURATION
             /\ unit.scores[(unit_out.value[k].start \div FRAME_HOP) + 1].music = {}
                  => unit_out.value[k].music_score = 0
        /\ \A k \in 1..(Len(unit_out.value) - 1) :
             unit_out.value[k].start < unit_out.value[k + 1].start

\* three windows fit exactly; the first is clear music, the second is below both
\* thresholds, the third is background music under speech
C16_Witness ==
    /\ unit.fn = "detect"
    /\ unit_out.calls = 1
    /\ unit.total_samples = TFLITE_INPUT_LENGTH + 2 * HopSamples
    /\ unit.scores = <<[music |-> {4, 10}, speech |-> FALSE], [music |-> {4}, speech |-> TRUE],
                       [music |-> {5}, speech |-> TRUE]>>
    /\ Len(unit_out.value) = 2
    /\ unit_out.value[2].start = 2 * FRAME_HOP

\* ------------------------------------------------------------ claims: the probe windows
\* C17: the probe starts of a fine segment (s, e) are exactly s + k * 8.0 for the k with
\* s + k * 8.0 < e - 2.0; each probe is queried over [p, min(p + 12.0, e)], so every
\* window lies inside [s, e] and is longer than 2.0 s and at most 12.0 s long.
C17_ProbeWindows ==
    (unit.fn = "probe" /\ unit_out.calls = 1) =>
        /\ \A k \in 1..Len(unit_out.value) :
             /\ unit_out.value[k].start = unit.start + (k - 1) * 80000
             /\ unit_out.value[k].start < unit.end - 20000
             /\ unit_out.value[k].end =
                  (IF unit_out.value[k].start + 120000 <= unit.end
                   THEN unit_out.value[k].start + 120000 ELSE unit.end)
             /\ unit.start <= unit_out.value[k].start
             /\ unit_out.value[k].end <= unit.end
             /\ unit_out.value[k].end - unit_out.value[k].start > 20000
             /\ unit_out.value[k].end - unit_out.value[k].start <= 120000
        /\ unit.start + Len(unit_out.value) * 80000 >= unit.end - 20000

\* an 18.01 s segment gets three probes; the last one is the 2.01 s tail
C17_Witness ==
    /\ unit.fn = "probe"
    /\ unit_out.calls = 1
    /\ unit.end - unit.start = 2 * PROBE_INTERVAL + TAIL_FLOOR + CENTI
    /\ Len(unit_out.value) = 3
    /\ unit_out.value[3].end - unit_out.value[3].start = TAIL_FLOOR + CENTI

\* ------------------------------------------------------------ claims: model loading
\* C18: while the model file or the class map is missing, every load_model call raises,
\* so no detector runs the frame loop with an interpreter but without class names.
C18_LoadFailFatal ==
    (unit.fn = "load" /\ unit_out.calls >= 1
        /\ ~(unit.model_present /\ unit.class_map_present)) =>
        /\ unit_out.raised
        /\ ~unit_out.detected

\* the same for the copy under src/app alone, which looks for both files before it
\* allocates the interpreter
C18_AppLoadFailFatal ==
    (variant = "app" /\ unit.fn = "load" /\ unit_out.calls >= 1
        /\ ~(unit.model_present /\ unit.class_map_present)) =>
        /\ unit_out.raised
        /\ ~unit_out.detected
        /\ unit_out.detector = NoDetector

\* ------------------------------------------------------------ claims: the fallback windows
\* C20: every hit the fallback path records, and every merged segment it returns, lies
\* within [0, total_duration].
C20_HitsWithinDuration ==
    entry = "timeline" =>
        /\ \A k \in 1..Len(segments) :
             0 <= segments[k].start /\ segments[k].end <= total_duration
        /\ \A k \in 1..Len(run_result.segments) :
             0 <= run_result.segments[k].start /\ run_result.segments[k].end <= total_duration

\* the part of the windowing that holds: each window starts at a multiple of
\* chunk_seconds - overlap_seconds below total_duration and is chunk_seconds long
C20_WindowStride ==
    (entry = "timeline" /\ pc = "t_identify") =>
        /\ probe.start % (CHUNK_SECONDS - OVERLAP_SECONDS) = 0
        /\ probe.start < total_duration
        /\ probe.end = probe.start + CHUNK_SECONDS

\* ------------------------------------------------------------ claims: the fallback merge pass
\* the merge pass as it is described: over the hits in order of start, a hit joins the
\* last output segment when it starts at most 3 s after that segment's end, and the
\* segment then ends at the larger of the two ends
RECURSIVE DescribedMerge(_, _)
DescribedMerge(merged, rest) ==
    IF rest = <<>>
    THEN merged
    ELSE LET n == Len(merged)
         IN  IF Head(rest).start - merged[n].end <= 30000
             THEN DescribedMerge(
                      [merged EXCEPT ![n].end = IF Head(rest).end > @ THEN Head(rest).end ELSE @],
                      Tail(rest))
             ELSE DescribedMerge(Append(merged, Head(rest)), Tail(rest))

\* whether out is the described merge of the hit list hits
IsDescribedMerge(hits, out) ==
    IF hits = <<>>
    THEN out = <<>>
    ELSE LET sorted == SortByStart(hits)
             want == DescribedMerge(<<sorted[1]>>, Tail(sorted))
         IN  /\ Len(out) = Len(want)
             /\ \A k \in 1..Len(out) :
                  /\ out[k].start = want[k].start
                  /\ out[k].end = want[k].end
                  /\ out[k].duration = out[k].end - out[k].start
             /\ \A k \in 1..(Len(out) - 1) : out[k + 1].start - out[k].end > 30000

\* C21: the merge pass sorts the hits by start and merges a hit into the previous output
\* segment iff start - prevEnd <= 3 s; a merged segment spans from the start of its first
\* hit to the largest end of its hits, output segments are ordered and more than 3 s
\* apart, and every output segment has duration = end - start.
C21_MergePass ==
    (unit.fn = "mergehits" /\ unit_out.calls = 1) =>
        IsDescribedMerge(unit.segments, unit_out.value)

\* the same for the hit lists a fallback run of src/service.py hands to its merge pass
C21_FallbackRunMerged ==
    (entry = "timeline" /\ pc = "done" /\ ~raised /\ run_result.copyrighted /= "None") =>
        IsDescribedMerge(segments, run_result.segments)

\* the same for src/service.py alone when the hits are equal windows in any order
C21_RootEqualWindows ==
    (variant = "root" /\ unit.fn = "mergehits" /\ unit_out.calls = 1
        /\ \A k \in 1..Len(unit.segments) : unit.segments[k].duration = CHUNK_SECONDS) =>
        IsDescribedMerge(unit.segments, unit_out.value)

\* ------------------------------------------------------------ claims: the confirmed list
\* a stitcher step that extended the latest confirmed segment in place
Extended ==
    /\ Len(confirmed_segments') = Len(confirmed_segments)
    /\ confirmed_segments' /= confirmed_segments

\* C22: after every stitcher step each confirmed segment has duration = end - start in
\* hundredths of a second, also right after an extension in place, and an extension
\* changes neither the start nor the track of the segment (nor any earlier segment).
C22_DurationKept ==
    /\ [](\A k \in 1..Len(confirmed_segments) :
            /\ confirmed_segments[k].duration
                 = confirmed_segments[k].end - confirmed_segments[k].start
            /\ confirmed_segments[k].end % CENTI = 0
            /\ confirmed_segments[k].start % CENTI = 0)
    /\ [][Extended =>
            LET n == Len(confirmed_segments)
            IN  /\ confirmed_segments'[n].start = confirmed_segments[n].start
                /\ confirmed_segments'[n].acrid = confirmed_segments[n].acrid
                /\ confirmed_segments'[n].end > confirmed_segments[n].end
                /\ \A k \in 1..(n - 1) : confirmed_segments'[k] = confirmed_segments[k]]_vars

\* a confirmed segment longer than one probe window: it was extended in place
C22_Witness ==
    /\ entry = "yamnet"
    /\ Len(confirmed_segments) >= 1
    /\ confirmed_segments[Len(confirmed_segments)].duration > PROBE_WINDOW
    /\ confirmed_segments[Len(confirmed_segments)].duration
         = confirmed_segments[Len(confirmed_segments)].end
             - confirmed_segments[Len(confirmed_segments)].start

\* ------------------------------------------------------------ claims: the supplied threshold
\* C23: the chroma_threshold given to a classifier-path run is the threshold the boundary
\* refiner applies: the candidates are exactly the hops whose change value is at least the
\* supplied threshold.
C23_SuppliedThresholdApplied ==
    (unit.fn = "refine" /\ unit_out.calls = 1) =>
        unit_out.cands = {i \in RefineHops : unit.combined[i] >= unit.chroma_threshold}

\* what the run does instead: the candidates are the hops whose change value is at least
\* 0.3, whatever threshold the run was given
C23_DefaultThresholdApplied ==
    (unit.fn = "refine" /\ unit_out.calls = 1) =>
        /\ unit_out.cands = {i \in RefineHops : unit.combined[i] >= 30}
        /\ unit_out.value = find_boundaries_in_segment(unit.seg_start, unit.seg_end, unit_out.cands)

\* ------------------------------------------------------------ claims: probe coverage
\* C24: a fine segment (s, e) longer than 2.0 s gets at least one probe, the first
\* window starts at s, each window starts before the previous one ends, and the last
\* window ends at e, so the windows cover [s, e]; a segment of at most 2.0 s gets no probe.
C24_ProbeCoverage ==
    (unit.fn = "probe" /\ unit_out.calls = 1) =>
        IF unit.end - unit.start > 20000
        THEN /\ Len(unit_out.value) >= 1
             /\ unit_out.value[1].start = unit.start
             /\ unit_out.value[Len(unit_out.value)].end = unit.end
             /\ \A k \in 1..(Len(unit_out.value) - 1) :
                  /\ unit_out.value[k + 1].start < unit_out.value[k].end
                  /\ unit_out.value[k + 1].end >= unit_out.value[k].end
        ELSE unit_out.value = <<>>

\* a 14 s segment: two windows, [s, s + 12] and [s + 8, s + 14]
C24_Witness ==
    /\ unit.fn = "probe"
    /\ unit_out.calls = 1
    /\ unit.end - unit.start = PROBE_WINDOW + TAIL_FLOOR
    /\ Len(unit_out.value) = 2
    /\ unit_out.value[1].end = unit.start + PROBE_WINDOW
    /\ unit_out.value[2].start = unit.start + PROBE_INTERVAL
    /\ unit_out.value[2].end = unit.end

\* ------------------------------------------------------------ claims: one list for the run
\* C25: the confirmed list and its continuity test are shared by all fine segments of a
\* run: when a matched probe of a later fine segment carries the track id of the latest
\* confirmed segment, which ended at or before that fine segment's start, the latest
\* segment is extended to the probe's end and nothing is appended.
C25_ExtensionAcrossSegments ==
    [][(/\ pc = "stitch"
        /\ result.copyrighted = "True"
        /\ result.acrid /= NoId
        /\ Len(confirmed_segments) > 0
        /\ confirmed_segments[Len(confirmed_segments)].acrid = result.acrid
        /\ confirmed_segments[Len(confirmed_segments)].end <= candidate_segments[seg_i].start)
       => (/\ Len(confirmed_segments') = Len(confirmed_segments)
           /\ confirmed_segments'[Len(confirmed_segments)].end = probe.end
           /\ confirmed_segments'[Len(confirmed_segments)].start
                = confirmed_segments[Len(confirmed_segments)].start)]_vars

\* a confirmed segment that starts inside one candidate segment and ends inside a later
\* one, with time between the two that no candidate segment covers
C25_Witness ==
    /\ entry = "yamnet"
    /\ \E c \in 1..Len(confirmed_segments) : \E k \in 1..(Len(candidate_segments) - 1) :
         /\ candidate_segments[k].end < candidate_segments[k + 1].start
         /\ confirmed_segments[c].start < candidate_segments[k].end
         /\ confirmed_segments[c].end > candidate_segments[k + 1].start

\* ------------------------------------------------------------ claims: matches without an id
\* C26: a matched probe whose track has no acrid never extends a confirmed segment: it
\* appends a new segment for its own window, also when the latest confirmed segment has
\* no acrid either, so the list grows by one with every such probe.
C26_NoIdAppends ==
    [][(pc = "stitch" /\ result.copyrighted = "True" /\ result.acrid = NoId)
       => (/\ Len(confirmed_segments') = Len(confirmed_segments) + 1
           /\ \A k \in 1..Len(confirmed_segments) :
                confirmed_segments'[k] = confirmed_segments[k]
           /\ confirmed_segments'[Len(confirmed_segments) + 1]
                = [start |-> probe.start, end |-> probe.end,
                   duration |-> probe.end - probe.start, acrid |-> NoId])]_vars

\* three probes of one candidate segment matched without an acrid: three segments
C26_Witness ==
    /\ entry = "yamnet"
    /\ Len(confirmed_segments) = 3
    /\ \A k \in 1..3 : confirmed_segments[k].acrid = NoId
    /\ Len(log) = 3
    /\ \E c \in 1..Len(candidate_segments) : \A k \in 1..3 :
         /\ candidate_segments[c].start <= confirmed_segments[k].start
         /\ confirmed_segments[k].end <= candidate_segments[c].end

\* ------------------------------------------------------------ claims: temporary clips
\* C27: every temporary clip is deleted before the next one is created and before the
\* run returns, on every path: when a run has ended no clip is left on disk.
C27_NoClipOutlivesRun ==
    /\ chunks <= 1
    /\ pc = "done" => chunks = 0

\* the part that holds: at most one clip exists at a time, and a run that ends without
\* an extraction failure leaves none
C27_OneClipAtATime ==
    /\ chunks <= 1
    /\ (pc = "done" /\ failure /= "ffmpeg not found") => chunks = 0

\* ------------------------------------------------------------ claims: the shared template
\* C28: the shared detector reference is set only after load_model has completed (an
\* interpreter and the class names are there), so a job that reads it never gets a
\* partially loaded template; it stays unset for good when the preload fails or is
\* switched off; once it is set, neither the reference nor the template changes, and a
\* job's own detector is another object than the template.
C28_TemplatePublishedWhole ==
    /\ [](yamnet_detector_instance /= "None" =>
            /\ loader = "published"
            /\ template.interpreter /= 0
            /\ template.class_names)
    /\ [](\A j \in Jobs :
            /\ jobs[j].arg /= "None" => (template.interpreter /= 0 /\ template.class_names)
            /\ jobs[j].detector.interpreter /= 0 =>
                 jobs[j].detector.interpreter /= template.interpreter)
    /\ [](loader \in {"failed", "off"} => yamnet_detector_instance = "None")
    /\ [][(loader \in {"failed", "off"}) => (loader' = loader)]_vars
    /\ [][yamnet_detector_instance /= "None" =>
            /\ yamnet_detector_instance' = yamnet_detector_instance
            /\ template' = template]_vars

\* the template is published and a job that read the reference has finished its run on
\* a clone while the template is as it was loaded
C28_Witness ==
    /\ yamnet_detector_instance = "template"
    /\ template = TemplateDetector
    /\ \E j \in Jobs :
         /\ jobs[j].arg = "template"
         /\ jobs[j].pc = "save"
         /\ jobs[j].detector.interpreter \notin {0, template.interpreter}

\* ------------------------------------------------------------ claims: status polls
\* C29: whenever a poll shows a job as done its result is already there, and whenever it
\* shows error the error string is already set.
C29_PollSeesResult ==
    \A j \in Jobs :
        get_job_status(j).found =>
            /\ get_job_status(j).status = "done" => get_job_status(j).result /= "None"
            /\ get_job_status(j).status = "error" => get_job_status(j).error /= "None"

\* the part that holds: a job's status moves queued -> processing -> done or error only,
\* a terminal status never changes, and a job thread that has ended has its result or its
\* error string in the table
C29_StatusMoves ==
    /\ [][\A j \in Jobs :
            \/ jobs'[j].status = jobs[j].status
            \/ jobs[j].status = "absent" /\ jobs'[j].status = "queued"
            \/ jobs[j].status = "queued" /\ jobs'[j].status = "processing"
            \/ jobs[j].status = "processing" /\ jobs'[j].status \in {"done", "error"}]_vars
    /\ [](\A j \in Jobs :
            jobs[j].pc = "end" =>
                \/ jobs[j].status = "done" /\ jobs[j].result /= "None" /\ jobs[j].error = "None"
                \/ jobs[j].status = "error" /\ jobs[j].error /= "None")

\* ------------------------------------------------------------ claims: the fallback loop ends
\* ceil(total_duration / step) for step = chunk_seconds - overlap_seconds = 8 s
WindowCount == (total_duration + 80000 - 1) \div 80000

\* C30: a fallback run ends for every duration from 0 on; the loop position grows with
\* every window and never shrinks; a run whose loop is not cut short by a tool failure
\* has cut and queried exactly ceil(total_duration / 8 s) windows, one identify call each.
C30_TimelineEnds ==
    /\ (entry = "timeline") ~> (pc = "done")
    /\ [][(entry = "timeline" /\ pc = "t_identify") => current' = current + 80000]_vars
    /\ [][entry = "timeline" => current' >= current]_vars
    /\ []((entry = "timeline" /\ pc = "done" /\ failure \notin ToolFailures) =>
            /\ current = WindowCount * 80000
            /\ queries <= WindowCount
            /\ chunks = 0)
    /\ []((entry = "timeline" /\ pc = "t_identify") =>
            /\ probe.start = current
            /\ current < total_duration
            /\ chunks = 1)

\* a 17 s recording: the third window starts at 16 s and the run returns after it
C30_Witness ==
    /\ entry = "timeline"
    /\ pc = "done"
    /\ failure = ""
    /\ total_duration = 17 * TICKS_PER_SEC
    /\ current = 3 * (CHUNK_SECONDS - OVERLAP_SECONDS)
    /\ queries = 3

====
